---- MODULE Spec2Model ----
(***************************************************************************)
(* rflow: a line-oriented chat/debug protocol.                             *)
(*                                                                         *)
(* Spec      the server (src/src/server.rs): the accept loop of            *)
(*           serve_with_listener, one connection handler (reader) and one  *)
(*           writer thread per accepted socket, the application thread     *)
(*           that calls Server::send, take_data_channel and the setters,   *)
(*           and the peers at the other end of the sockets.                *)
(* FrameSpec the wire format of one frame: the server writer's encoding    *)
(*           (server.rs) followed by the client reader's decoding          *)
(*           (src/src/client.rs).                                          *)
(***************************************************************************)
EXTENDS Integers, Sequences, FiniteSets, TLC

\* ------------------------------------------------------------------ bounds
\* sockets the peers ever open
MaxConn == 2
\* largest value given to set_max_clients
MaxClients == 2
\* largest value given to set_outgoing_queue_size
MaxOutQueue == 1
\* largest value given to set_incoming_queue_size
MaxInQueue == 1
\* incoming channels ever created (Server::new, then set_incoming_queue_size)
MaxInChans == 2
\* calls the application makes on the Server (send, the setters,
\* take_data_channel, dropping the receiver)
MaxCalls == 3
\* sockets opened, lines sent and calls made, all together
MaxEvents == 4
\* lines the peers ever send
MaxLines == 2
\* frames the kernel buffers of one socket hold before a write blocks
SockCap == 1
\* threads that call Client::try_send, and the calls each of them makes
MaxSenders == 2
MaxSends == 2
\* most Client handles (the first and its clones) made for one connection
MaxHandles == 2
\* capacity of the client's channel in HandleSpec
ClientQueue == 1
\* most lines a peer has on its socket when RelaySpec starts
MaxBacklog == 2
\* longest payload of FrameSpec
MaxPayload == 3
\* ConnectSpec: the longest ConnectionOptions::timeout, in ticks, the last tick
\* of the clock, and the pieces an endpoint writes
MaxTimeout == 2
MaxTime == 3
MaxChunks == 3

Conns == 0..(MaxConn - 1)
\* thread ids for the registry lock: a handler is named by its socket
AppThread == MaxConn
NoThread == MaxConn + 1
\* Option::None for a channel index
NoChan == MaxInChans

\* ------------------------------------------------------------------ lib.rs
GREETING == <<"R", "F", "L", "O", "W">>
HEADERS_TRANSMISSION_END == <<"-", "-", "-">>
API_VERSION == <<"1">>

ClientToServer == "ClientToServer"
ServerToClient == "ServerToClient"

\* Direction::as_str
as_str(direction) ==
    IF direction = ClientToServer THEN <<">", ">", ">">> ELSE <<"<", "<", "<">>

\* format!("{}/{}\n{}\n", GREETING, API_VERSION, HEADERS_TRANSMISSION_END)
Handshake ==
    GREETING \o <<"/">> \o API_VERSION \o <<"\n">> \o HEADERS_TRANSMISSION_END \o <<"\n">>

\* the three write_all calls of the writer thread: prefix, payload, "\n"
\* faulty variant: the payload is written before the direction prefix
EncodeFramePayloadFirst(msg) == msg[2] \o as_str(msg[1]) \o <<"\n">>

EncodeFrame(msg) == as_str(msg[1]) \o msg[2] \o <<"\n">>

\* what the three write_all calls leave on the wire when one of them fails
PartialFrames(msg) == {<<>>, as_str(msg[1]), as_str(msg[1]) \o msg[2]}

Digit(n) == CASE n = 0 -> "0" [] n = 1 -> "1" [] n = 2 -> "2" [] n = 3 -> "3"
              [] n = 4 -> "4" [] n = 5 -> "5" [] OTHER -> "9"

\* the n-th payload the application hands to Server::send, the n-th line a peer sends
SendData(n) == <<"m", Digit(n)>>
LineData(n) == <<"x", Digit(n)>>

\* ------------------------------------------------------------ BufRead::lines
RECURSIVE IndexOf(_, _, _)
IndexOf(s, ch, i) ==
    IF i > Len(s) THEN 0 ELSE IF s[i] = ch THEN i ELSE IndexOf(s, ch, i + 1)

HasLine(bytes) == IndexOf(bytes, "\n", 1) > 0

\* the bytes up to the first "\n", without it and without a "\r" right before it
FirstLine(bytes) ==
    LET n == IndexOf(bytes, "\n", 1)
        raw == SubSeq(bytes, 1, n - 1)
    IN  IF Len(raw) > 0 /\ raw[Len(raw)] = "\r" THEN SubSeq(raw, 1, Len(raw) - 1) ELSE raw

AfterFirstLine(bytes) == SubSeq(bytes, IndexOf(bytes, "\n", 1) + 1, Len(bytes))

\* ------------------------------------------------------------ rtsc::channel
\* faulty variant: the queue takes one message more than its capacity
TrySendOffByOne(ch) ==
    IF ~ch.rx THEN "closed" ELSE IF Len(ch.q) > ch.cap THEN "full" ELSE "ok"

\* faulty variant: the broadcast uses send, which waits for room
TrySendWaits(ch) ==
    IF ~ch.rx THEN "closed" ELSE IF Len(ch.q) >= ch.cap THEN "blocked" ELSE "ok"

\* Sender::try_send: never waits
TrySendOutcome(ch) ==
    IF ~ch.rx THEN "closed" ELSE IF Len(ch.q) >= ch.cap THEN "full" ELSE "ok"

\* Sender::send: waits for room
SendOutcome(ch) ==
    IF ~ch.rx THEN "closed" ELSE IF Len(ch.q) >= ch.cap THEN "blocked" ELSE "ok"

NewChannel(cap) == [q |-> <<>>, cap |-> cap, rx |-> TRUE]
NoChannel == [q |-> <<>>, cap |-> 0, rx |-> FALSE]

VARIABLES
    \* Inner (server.rs 131-140)
    max_clients, outgoing_queue_size, clinet_id, client_count, clients,
    incoming_data_tx, incoming_data_rx,
    \* the incoming channels ever created: [q, cap, rx], and where each receiver is
    inch, inrx,
    \* the registry mutex: the thread that holds it across a broadcast, and the
    \* last key the broadcast's iteration visited
    lock, bcur,
    \* the semaphore of serve_with_listener: free permits
    permits, sem_size,
    \* the accept loop: [pc, sock, id]
    acc,
    \* per socket: the handler [pc, id, line, tx], the writer [pc, msg], the
    \* outgoing channel [q, cap, rx], the socket [peer, c2s, sbuf, down, wire]
    hnd, wr, outch, sock,
    \* the application: [pc, msg, calls, nsend, takes, last_take, nset, last_set]
    app,
    \* the peers: sockets opened, lines sent
    nconn, nline,
    \* history: what happened, for the properties only
    hist,
    \* the client at the other end of socket 0 (client.rs): [pc, pos,
    \* last_direction, events], the result of connect [error, version], where
    \* its reader thread started [from], and the clock of connect [timeout,
    \* now, since, rt]
    cli

svars == <<max_clients, outgoing_queue_size, clinet_id, client_count, clients,
           incoming_data_tx, incoming_data_rx, inch, inrx, lock, bcur, permits,
           sem_size, acc, hnd, wr, outch, sock, app, nconn, nline, hist>>
vars == <<svars, cli>>

ServerInit(mc, oq, iq) ==
    /\ max_clients = mc
    /\ outgoing_queue_size = oq
    /\ clinet_id = 0
    /\ client_count = 0
    /\ clients = [i \in {} |-> 0]
    /\ incoming_data_tx = 0
    /\ incoming_data_rx = 0
    /\ inch = [i \in 0..(MaxInChans - 1) |-> IF i = 0 THEN NewChannel(iq) ELSE NoChannel]
    /\ inrx = [i \in 0..(MaxInChans - 1) |-> IF i = 0 THEN "server" ELSE "none"]
    /\ lock = NoThread
    /\ bcur = -1
    /\ permits = 0
    /\ sem_size = 0
    /\ acc = [pc |-> "idle", sock |-> 0, id |-> 0]
    /\ hnd = [c \in Conns |-> [pc |-> "none", id |-> 0, line |-> <<>>, tx |-> NoChan]]
    /\ wr = [c \in Conns |-> [pc |-> "none", msg |-> <<>>]]
    /\ outch = [c \in Conns |-> NoChannel]
    /\ sock = [c \in Conns |->
                 [peer |-> "none", c2s |-> <<>>, sbuf |-> 0, down |-> FALSE, wire |-> <<>>]]
    /\ app = [pc |-> "idle", msg |-> <<>>, calls |-> 0, nsend |-> 0, takes |-> 0, last_take |-> "none",
              nset |-> 0, last_set |-> "none"]
    /\ nconn = 0
    /\ nline = 0
    /\ hist = [inlog |-> <<>>,
               enq |-> [c \in Conns |-> {}],
               lost |-> [c \in Conns |-> {}],
               offered |-> [c \in Conns |-> {}],
               csent |-> [c \in Conns |-> <<>>],
               decs |-> [c \in Conns |-> 0],
               removes |-> [c \in Conns |-> 0],
               releases |-> [c \in Conns |-> 0],
               queued |-> [c \in Conns |-> <<>>],
               dequeued |-> [c \in Conns |-> <<>>],
               before |-> {}]

\* no rflow client: the peers are plain sockets
\* the threads that call Client::try_send
Senders == 1..MaxSenders

\* lib.rs: the default capacity of the channel Client::connect hands out
DEFAULT_INCOMING_QUEUE_SIZE == 128

IdleClient ==
    [pc |-> "none", pos |-> 0, last_direction |-> "None", events |-> <<>>,
     error |-> "none", version |-> 0, from |-> 0,
     timeout |-> 1, now |-> 0, since |-> 0, rt |-> 0,
     connected |-> FALSE, handles |-> 0, drops |-> 0,
     cap |-> DEFAULT_INCOMING_QUEUE_SIZE, rx |-> TRUE, recvd |-> 0, held |-> <<>>,
     slock |-> 0, wfail |-> FALSE, log |-> <<>>,
     snd |-> [t \in Senders |-> [pc |-> "idle", rest |-> <<>>, n |-> 0]]]

NoClient == cli = IdleClient

\* Server::new, then the setters called before serve
Init ==
    /\ \E mc \in 1..MaxClients, oq \in 1..MaxOutQueue, iq \in 1..MaxInQueue :
           ServerInit(mc, oq, iq)
    /\ NoClient
\* the bound on what the application and the peers do
MoreEvents == nconn + nline + app.calls < MaxEvents

\* ------------------------------------------------------- Server: the setters
\* the application is one thread, and makes at most MaxCalls calls
AppCall == app.pc = "idle" /\ app.calls < MaxCalls /\ MoreEvents

\* Server::set_max_clients
set_max_clients(n) ==
    /\ AppCall
    /\ max_clients' = n
    /\ app' = [app EXCEPT !.calls = @ + 1]
    /\ UNCHANGED <<outgoing_queue_size, clinet_id, client_count, clients,
                   incoming_data_tx, incoming_data_rx, inch, inrx, lock, bcur, permits,
                   sem_size, acc, hnd, wr, outch, sock, nconn, nline, hist, cli>>

\* Server::set_outgoing_queue_size
set_outgoing_queue_size(size) ==
    /\ AppCall
    /\ outgoing_queue_size' = size
    /\ app' = [app EXCEPT !.calls = @ + 1]
    /\ UNCHANGED <<max_clients, clinet_id, client_count, clients,
                   incoming_data_tx, incoming_data_rx, inch, inrx, lock, bcur, permits,
                   sem_size, acc, hnd, wr, outch, sock, nconn, nline, hist, cli>>

\* the index of the next channel channel::bounded creates
FreshChan == Cardinality({i \in DOMAIN inrx : inrx[i] # "none"})

\* faulty variant: the check for a taken receiver is missing
QueueSizeNeverRefused == FALSE

\* if rx.is_none() { return Err(Error::DataChannelTaken) }
QueueSizeRefused == incoming_data_rx = NoChan

\* sockets the loop has taken from the listener
Accepted == {c \in Conns : hnd[c].pc # "none"} \cup
            (IF acc.pc \in {"acquire", "insert", "count"} THEN {acc.sock} ELSE {})

\* faulty variant: the receiver of the replaced channel lives on
set_incoming_queue_size_keeps_receiver(size) ==
    /\ AppCall
    /\ QueueSizeRefused \/ FreshChan < MaxInChans
    /\ app' = [app EXCEPT !.calls = @ + 1, !.nset = @ + 1,
                          !.last_set = IF QueueSizeRefused THEN "DataChannelTaken" ELSE "ok"]
    /\ IF QueueSizeRefused
       THEN UNCHANGED <<incoming_data_tx, incoming_data_rx, inch, inrx>>
       ELSE /\ incoming_data_tx' = FreshChan
            /\ incoming_data_rx' = FreshChan
            /\ inch' = [i \in DOMAIN inch |->
                          IF i = FreshChan THEN NewChannel(size)
                          ELSE IF i = incoming_data_rx THEN inch[i]
                          ELSE inch[i]]
            /\ inrx' = [i \in DOMAIN inrx |->
                          IF i = FreshChan THEN "server"
                          ELSE IF i = incoming_data_rx THEN "server"
                          ELSE inrx[i]]
    /\ hist' = IF QueueSizeRefused THEN hist ELSE [hist EXCEPT !.before = Accepted]
    /\ UNCHANGED <<max_clients, outgoing_queue_size, clinet_id, client_count, clients,
                   lock, bcur, permits, sem_size, acc, hnd, wr, outch, sock,
                   nconn, nline, cli>>

\* faulty variant: the new receiver is installed, the old sender is kept
set_incoming_queue_size_keeps_sender(size) ==
    /\ AppCall
    /\ QueueSizeRefused \/ FreshChan < MaxInChans
    /\ app' = [app EXCEPT !.calls = @ + 1, !.nset = @ + 1,
                          !.last_set = IF QueueSizeRefused THEN "DataChannelTaken" ELSE "ok"]
    /\ IF QueueSizeRefused
       THEN UNCHANGED <<incoming_data_tx, incoming_data_rx, inch, inrx>>
       ELSE /\ incoming_data_tx' = incoming_data_tx
            /\ incoming_data_rx' = FreshChan
            /\ inch' = [i \in DOMAIN inch |->
                          IF i = FreshChan THEN NewChannel(size)
                          ELSE IF i = incoming_data_rx THEN [inch[i] EXCEPT !.rx = FALSE]
                          ELSE inch[i]]
            /\ inrx' = [i \in DOMAIN inrx |->
                          IF i = FreshChan THEN "server"
                          ELSE IF i = incoming_data_rx THEN "dropped"
                          ELSE inrx[i]]
    /\ hist' = IF QueueSizeRefused THEN hist ELSE [hist EXCEPT !.before = Accepted]
    /\ UNCHANGED <<max_clients, outgoing_queue_size, clinet_id, client_count, clients,
                   lock, bcur, permits, sem_size, acc, hnd, wr, outch, sock,
                   nconn, nline, cli>>

\* Server::set_incoming_queue_size: Err(DataChannelTaken) changes nothing; Ok
\* replaces the sender and the receiver, dropping the old receiver
set_incoming_queue_size(size) ==
    /\ AppCall
    /\ QueueSizeRefused \/ FreshChan < MaxInChans
    /\ app' = [app EXCEPT !.calls = @ + 1, !.nset = @ + 1,
                          !.last_set = IF QueueSizeRefused THEN "DataChannelTaken" ELSE "ok"]
    /\ IF QueueSizeRefused
       THEN UNCHANGED <<incoming_data_tx, incoming_data_rx, inch, inrx>>
       ELSE /\ incoming_data_tx' = FreshChan
            /\ incoming_data_rx' = FreshChan
            /\ inch' = [i \in DOMAIN inch |->
                          IF i = FreshChan THEN NewChannel(size)
                          ELSE IF i = incoming_data_rx THEN [inch[i] EXCEPT !.rx = FALSE]
                          ELSE inch[i]]
            /\ inrx' = [i \in DOMAIN inrx |->
                          IF i = FreshChan THEN "server"
                          ELSE IF i = incoming_data_rx THEN "dropped"
                          ELSE inrx[i]]
    /\ hist' = IF QueueSizeRefused THEN hist ELSE [hist EXCEPT !.before = Accepted]
    /\ UNCHANGED <<max_clients, outgoing_queue_size, clinet_id, client_count, clients,
                   lock, bcur, permits, sem_size, acc, hnd, wr, outch, sock,
                   nconn, nline, cli>>

\* Server::take_data_channel: Option::take, then ok_or(DataChannelTaken)
take_data_channel ==
    /\ AppCall
    /\ IF incoming_data_rx # NoChan
       THEN /\ inrx' = [inrx EXCEPT ![incoming_data_rx] = "app"]
            /\ incoming_data_rx' = NoChan
            /\ app' = [app EXCEPT !.calls = @ + 1, !.takes = @ + 1, !.last_take = "ok"]
       ELSE /\ app' = [app EXCEPT !.calls = @ + 1, !.last_take = "DataChannelTaken"]
            /\ UNCHANGED <<inrx, incoming_data_rx>>
    /\ UNCHANGED <<max_clients, outgoing_queue_size, clinet_id, client_count, clients,
                   incoming_data_tx, inch, lock, bcur, permits, sem_size, acc, hnd, wr,
                   outch, sock, nconn, nline, hist, cli>>

\* the application receives from the channel it took
AppRecv ==
    \E i \in DOMAIN inrx :
        /\ inrx[i] = "app"
        /\ Len(inch[i].q) > 0
        /\ inch' = [inch EXCEPT ![i].q = Tail(@)]
        /\ UNCHANGED <<max_clients, outgoing_queue_size, clinet_id, client_count, clients,
                       incoming_data_tx, incoming_data_rx, inrx, lock, bcur, permits,
                       sem_size, acc, hnd, wr, outch, sock, app, nconn, nline, hist, cli>>

\* the application drops the receiver it took
AppDropReceiver ==
    \E i \in DOMAIN inrx :
        /\ AppCall
        /\ inrx[i] = "app"
        /\ inrx' = [inrx EXCEPT ![i] = "dropped"]
        /\ inch' = [inch EXCEPT ![i].rx = FALSE]
        /\ app' = [app EXCEPT !.calls = @ + 1]
        /\ UNCHANGED <<max_clients, outgoing_queue_size, clinet_id, client_count, clients,
                       incoming_data_tx, incoming_data_rx, lock, bcur, permits,
                       sem_size, acc, hnd, wr, outch, sock, nconn, nline, hist, cli>>

\* --------------------------------------------------- Inner::send (broadcast)
\* faulty variant: the echo goes out with the direction of Server::send
BMsgServerDirection(t) ==
    <<ServerToClient, IF t = AppThread THEN app.msg ELSE hnd[t].line>>

\* what thread t broadcasts: Server::send's payload, or a handler's line
BMsg(t) ==
    IF t = AppThread THEN <<ServerToClient, app.msg>> ELSE <<ClientToServer, hnd[t].line>>

Broadcasting(t) ==
    IF t = AppThread THEN app.pc = "bcast" ELSE hnd[t].pc = "echo"

\* BTreeMap::values: the keys after k, in ascending order
KeysAfter(k) == {i \in DOMAIN clients : i > k}
NextKey(k) == CHOOSE i \in KeysAfter(k) : \A j \in KeysAfter(k) : i <= j

\* the broadcaster is done: the guard is dropped, Server::send returns or the
\* reader loop goes on
Finished(t) ==
    /\ lock' = NoThread
    /\ bcur' = -1
    /\ IF t = AppThread
       THEN app' = [app EXCEPT !.pc = "idle"] /\ UNCHANGED hnd
       ELSE hnd' = [hnd EXCEPT ![t].pc = "read"] /\ UNCHANGED app

\* one round of the loop: client.try_send((direction, data.clone())), and what
\* the history records of it
Offer(t, k) ==
    LET id == NextKey(k)
        s == clients[id]
        r == TrySendOutcome(outch[s])
    IN  /\ r # "blocked"
        /\ outch' = IF r = "ok" THEN [outch EXCEPT ![s].q = Append(@, BMsg(t))] ELSE outch
        /\ hist' = [hist EXCEPT
               !.offered[s] = @ \cup {BMsg(t)},
               !.queued[s] = IF r = "ok" THEN Append(@, BMsg(t)) ELSE @,
               !.enq[s] = IF r = "ok" THEN @ \cup {BMsg(t)} ELSE @,
               !.lost[s] = IF r = "full" THEN @ \cup {BMsg(t)} ELSE @]
        /\ IF KeysAfter(id) = {}
           THEN Finished(t)
           ELSE lock' = t /\ bcur' = id /\ UNCHANGED <<app, hnd>>

\* self.clients.lock() and the first round of the loop
SendLock(t) ==
    /\ Broadcasting(t)
    /\ lock = NoThread
    /\ IF KeysAfter(-1) = {}
       THEN Finished(t) /\ UNCHANGED <<outch, hist>>
       ELSE Offer(t, -1)
    /\ UNCHANGED <<max_clients, outgoing_queue_size, clinet_id, client_count, clients,
                   incoming_data_tx, incoming_data_rx, inch, inrx, permits, sem_size,
                   acc, wr, sock, nconn, nline, cli>>

\* the later rounds, with the lock held
SendOffer(t) ==
    /\ lock = t
    /\ KeysAfter(bcur) # {}
    /\ Offer(t, bcur)
    /\ UNCHANGED <<max_clients, outgoing_queue_size, clinet_id, client_count, clients,
                   incoming_data_tx, incoming_data_rx, inch, inrx, permits, sem_size,
                   acc, wr, sock, nconn, nline, cli>>

\* Server::send: nothing when client_count is 0
send ==
    /\ AppCall
    /\ app' = [app EXCEPT !.calls = @ + 1,
                          !.nsend = @ + 1,
                          !.msg = SendData(app.nsend + 1),
                          !.pc = IF client_count > 0 THEN "bcast" ELSE "idle"]
    /\ UNCHANGED <<max_clients, outgoing_queue_size, clinet_id, client_count, clients,
                   incoming_data_tx, incoming_data_rx, inch, inrx, lock, bcur, permits,
                   sem_size, acc, hnd, wr, outch, sock, nconn, nline, hist, cli>>
\* ------------------------------------------- Server::serve_with_listener
\* Semaphore::new(max_clients), then the first listener.accept()
serve_with_listener ==
    /\ acc.pc = "idle"
    /\ permits' = max_clients
    /\ sem_size' = max_clients
    /\ acc' = [acc EXCEPT !.pc = "accept"]
    /\ UNCHANGED <<max_clients, outgoing_queue_size, clinet_id, client_count, clients,
                   incoming_data_tx, incoming_data_rx, inch, inrx, lock, bcur, hnd, wr,
                   outch, sock, app, nconn, nline, hist, cli>>

\* listener.accept() returns the oldest pending socket
Accept ==
    /\ acc.pc = "accept"
    /\ Cardinality(Accepted) < nconn
    /\ acc' = [acc EXCEPT !.pc = "acquire", !.sock = Cardinality(Accepted)]
    /\ UNCHANGED <<max_clients, outgoing_queue_size, clinet_id, client_count, clients,
                   incoming_data_tx, incoming_data_rx, inch, inrx, lock, bcur, permits,
                   sem_size, hnd, wr, outch, sock, app, nconn, nline, hist, cli>>

\* faulty variant: one permit too many
CanAcquireOffByOne == permits >= 0

\* Semaphore::acquire: waits for a free permit
CanAcquire == permits > 0

\* semaphore.acquire(), channel::bounded(outgoing_queue_size), clinet_id.fetch_add(1)
Acquire ==
    /\ acc.pc = "acquire"
    /\ CanAcquire
    /\ permits' = permits - 1
    /\ outch' = [outch EXCEPT ![acc.sock] = NewChannel(outgoing_queue_size)]
    /\ clinet_id' = clinet_id + 1
    /\ acc' = [acc EXCEPT !.pc = "insert", !.id = clinet_id]
    /\ UNCHANGED <<max_clients, outgoing_queue_size, client_count, clients,
                   incoming_data_tx, incoming_data_rx, inch, inrx, lock, bcur,
                   sem_size, hnd, wr, sock, app, nconn, nline, hist, cli>>

\* self.inner.clients.lock().insert(client_id, outgoing_data_tx), then
\* self.inner.incoming_data_tx.lock().clone()
Insert ==
    /\ acc.pc = "insert"
    /\ lock = NoThread
    /\ clients' = [i \in DOMAIN clients \cup {acc.id} |->
                     IF i = acc.id THEN acc.sock ELSE clients[i]]
    /\ hnd' = [hnd EXCEPT ![acc.sock].tx = incoming_data_tx, ![acc.sock].id = acc.id]
    /\ acc' = [acc EXCEPT !.pc = "count"]
    /\ UNCHANGED <<max_clients, outgoing_queue_size, clinet_id, client_count,
                   incoming_data_tx, incoming_data_rx, inch, inrx, lock, bcur, permits,
                   sem_size, wr, outch, sock, app, nconn, nline, hist, cli>>

\* faulty variant: the writer thread is spawned with the handler, before the handshake
CountSpawnWriterFirst ==
    /\ acc.pc = "count"
    /\ client_count' = client_count + 1
    /\ hnd' = [hnd EXCEPT ![acc.sock].pc = "handshake"]
    /\ wr' = [wr EXCEPT ![acc.sock].pc = "recv"]
    /\ acc' = [acc EXCEPT !.pc = "accept"]
    /\ UNCHANGED <<max_clients, outgoing_queue_size, clinet_id, clients,
                   incoming_data_tx, incoming_data_rx, inch, inrx, lock, bcur, permits,
                   sem_size, outch, sock, app, nconn, nline, hist, cli>>

\* client_count.fetch_add(1), thread::spawn, then the next listener.accept()
CountSpawn ==
    /\ acc.pc = "count"
    /\ client_count' = client_count + 1
    /\ hnd' = [hnd EXCEPT ![acc.sock].pc = "handshake"]
    /\ acc' = [acc EXCEPT !.pc = "accept"]
    /\ UNCHANGED <<max_clients, outgoing_queue_size, clinet_id, clients,
                   incoming_data_tx, incoming_data_rx, inch, inrx, lock, bcur, permits,
                   sem_size, wr, outch, sock, app, nconn, nline, hist, cli>>

\* ------------------------------------------------------- handle_connection
\* set_write_timeout, set_nodelay, write_all(handshake), the two try_clone
\* and the spawn of the writer thread
HandshakeOk(c) ==
    /\ hnd[c].pc = "handshake"
    /\ sock' = [sock EXCEPT ![c].wire = @ \o Handshake]
    /\ wr' = [wr EXCEPT ![c].pc = "recv"]
    /\ hnd' = [hnd EXCEPT ![c].pc = "read"]
    /\ UNCHANGED <<max_clients, outgoing_queue_size, clinet_id, client_count, clients,
                   incoming_data_tx, incoming_data_rx, inch, inrx, lock, bcur, permits,
                   sem_size, acc, outch, app, nconn, nline, hist, cli>>

\* one of them fails (the peer is gone): `?` returns, outgoing_data_rx is dropped
HandshakeFail(c) ==
    /\ hnd[c].pc = "handshake"
    /\ sock[c].peer = "closed"
    /\ outch' = [outch EXCEPT ![c].rx = FALSE]
    /\ hnd' = [hnd EXCEPT ![c].pc = "dec"]
    /\ UNCHANGED <<max_clients, outgoing_queue_size, clinet_id, client_count, clients,
                   incoming_data_tx, incoming_data_rx, inch, inrx, lock, bcur, permits,
                   sem_size, acc, wr, sock, app, nconn, nline, hist, cli>>
\* faulty variant: the reader takes the newest line of the socket buffer
ReadPublishNewestFirst(c) ==
    /\ hnd[c].pc = "read"
    /\ HasLine(sock[c].c2s)
    /\ LET buf == sock[c].c2s
           start == CHOOSE k \in 0..(Len(buf) - 1) :
                        /\ k = 0 \/ buf[k] = "\n"
                        /\ \A j \in (k + 1)..(Len(buf) - 1) : buf[j] # "\n"
           line == SubSeq(buf, start + 1, Len(buf) - 1)
           r == SendOutcome(inch[hnd[c].tx])
       IN  /\ r # "blocked"
           /\ sock' = [sock EXCEPT ![c].c2s = SubSeq(@, 1, start)]
           /\ IF r = "ok"
              THEN /\ inch' = [inch EXCEPT ![hnd[c].tx].q = Append(@, line)]
                   /\ hist' = [hist EXCEPT !.inlog = Append(@, line)]
                   /\ hnd' = [hnd EXCEPT ![c].pc = "echo", ![c].line = line]
              ELSE /\ hnd' = [hnd EXCEPT ![c].pc = "dec", ![c].line = line]
                                  /\ UNCHANGED <<inch, hist>>
    /\ UNCHANGED <<max_clients, outgoing_queue_size, clinet_id, client_count, clients,
                   incoming_data_tx, incoming_data_rx, inrx, lock, bcur, permits,
                   sem_size, acc, wr, outch, app, nconn, nline, cli>>

\* faulty variant: a line the channel refused is echoed all the same
ReadPublishEchoesRefused(c) ==
    /\ hnd[c].pc = "read"
    /\ HasLine(sock[c].c2s)
    /\ LET line == FirstLine(sock[c].c2s)
           r == SendOutcome(inch[hnd[c].tx])
       IN  /\ r # "blocked"
           /\ sock' = [sock EXCEPT ![c].c2s = AfterFirstLine(@)]
           /\ IF r = "ok"
              THEN /\ inch' = [inch EXCEPT ![hnd[c].tx].q = Append(@, line)]
                   /\ hist' = [hist EXCEPT !.inlog = Append(@, line)]
                   /\ hnd' = [hnd EXCEPT ![c].pc = "echo", ![c].line = line]
              ELSE /\ hnd' = [hnd EXCEPT ![c].pc = "echo", ![c].line = line]
                                  /\ UNCHANGED <<inch, hist>>
    /\ UNCHANGED <<max_clients, outgoing_queue_size, clinet_id, client_count, clients,
                   incoming_data_tx, incoming_data_rx, inrx, lock, bcur, permits,
                   sem_size, acc, wr, outch, app, nconn, nline, cli>>

\* reader.lines() yields a line (also one buffered before a shutdown), then
\* incoming_data_tx.send(line.clone())?: waits while the channel is full,
\* returns the error when its receiver is gone
ReadPublish(c) ==
    /\ hnd[c].pc = "read"
    /\ HasLine(sock[c].c2s)
    /\ LET line == FirstLine(sock[c].c2s)
           r == SendOutcome(inch[hnd[c].tx])
       IN  /\ r # "blocked"
           /\ sock' = [sock EXCEPT ![c].c2s = AfterFirstLine(@)]
           /\ IF r = "ok"
              THEN /\ inch' = [inch EXCEPT ![hnd[c].tx].q = Append(@, line)]
                   /\ hist' = [hist EXCEPT !.inlog = Append(@, line)]
                   /\ hnd' = [hnd EXCEPT ![c].pc = "echo", ![c].line = line]
              ELSE /\ hnd' = [hnd EXCEPT ![c].pc = "dec", ![c].line = line]
                                  /\ UNCHANGED <<inch, hist>>
    /\ UNCHANGED <<max_clients, outgoing_queue_size, clinet_id, client_count, clients,
                   incoming_data_tx, incoming_data_rx, inrx, lock, bcur, permits,
                   sem_size, acc, wr, outch, app, nconn, nline, cli>>

\* faulty variant: a line that finds the channel full is dropped
ReadWaitDrops(c) ==
    /\ hnd[c].pc = "read"
    /\ HasLine(sock[c].c2s)
    /\ SendOutcome(inch[hnd[c].tx]) = "blocked"
    /\ sock' = [sock EXCEPT ![c].c2s = AfterFirstLine(@)]
    /\ hnd' = [hnd EXCEPT ![c].line = FirstLine(sock[c].c2s)]
    /\ UNCHANGED <<max_clients, outgoing_queue_size, clinet_id, client_count, clients,
                   incoming_data_tx, incoming_data_rx, inch, inrx, lock, bcur, permits,
                   sem_size, acc, wr, outch, app, nconn, nline, hist, cli>>

\* reader.lines() yields a line and incoming_data_tx.send finds the channel
\* full: the handler waits in send, with the line in hand
ReadWait(c) ==
    /\ hnd[c].pc = "read"
    /\ HasLine(sock[c].c2s)
    /\ SendOutcome(inch[hnd[c].tx]) = "blocked"
    /\ sock' = [sock EXCEPT ![c].c2s = AfterFirstLine(@)]
    /\ hnd' = [hnd EXCEPT ![c].pc = "publish", ![c].line = FirstLine(sock[c].c2s)]
    /\ UNCHANGED <<max_clients, outgoing_queue_size, clinet_id, client_count, clients,
                   incoming_data_tx, incoming_data_rx, inch, inrx, lock, bcur, permits,
                   sem_size, acc, wr, outch, app, nconn, nline, hist, cli>>

\* faulty variant: the result of the send is ignored, the line is echoed
PublishEchoesRefused(c) ==
    /\ hnd[c].pc = "publish"
    /\ LET r == SendOutcome(inch[hnd[c].tx])
       IN  /\ r # "blocked"
           /\ IF r = "ok"
              THEN /\ inch' = [inch EXCEPT ![hnd[c].tx].q = Append(@, hnd[c].line)]
                   /\ hist' = [hist EXCEPT !.inlog = Append(@, hnd[c].line)]
                   /\ hnd' = [hnd EXCEPT ![c].pc = "echo"]
              ELSE /\ hnd' = [hnd EXCEPT ![c].pc = "echo"]
                   /\ UNCHANGED <<inch, hist>>
    /\ UNCHANGED <<max_clients, outgoing_queue_size, clinet_id, client_count, clients,
                   incoming_data_tx, incoming_data_rx, inrx, lock, bcur, permits,
                   sem_size, acc, wr, outch, sock, app, nconn, nline, cli>>

\* incoming_data_tx.send returns after waiting: there is room, or the receiver
\* is gone
Publish(c) ==
    /\ hnd[c].pc = "publish"
    /\ LET r == SendOutcome(inch[hnd[c].tx])
       IN  /\ r # "blocked"
           /\ IF r = "ok"
              THEN /\ inch' = [inch EXCEPT ![hnd[c].tx].q = Append(@, hnd[c].line)]
                   /\ hist' = [hist EXCEPT !.inlog = Append(@, hnd[c].line)]
                   /\ hnd' = [hnd EXCEPT ![c].pc = "echo"]
              ELSE /\ hnd' = [hnd EXCEPT ![c].pc = "dec"]
                   /\ UNCHANGED <<inch, hist>>
    /\ UNCHANGED <<max_clients, outgoing_queue_size, clinet_id, client_count, clients,
                   incoming_data_tx, incoming_data_rx, inrx, lock, bcur, permits,
                   sem_size, acc, wr, outch, sock, app, nconn, nline, cli>>

\* reader.lines() ends (the peer closed, or the writer shut the socket down):
\* socket.shutdown(Shutdown::Both)?; Ok(())
ReadEof(c) ==
    /\ hnd[c].pc = "read"
    /\ \/ sock[c].down
       \/ sock[c].peer = "closed" /\ ~HasLine(sock[c].c2s)
    /\ sock' = [sock EXCEPT ![c].down = TRUE]
    /\ hnd' = [hnd EXCEPT ![c].pc = "dec"]
    /\ UNCHANGED <<max_clients, outgoing_queue_size, clinet_id, client_count, clients,
                   incoming_data_tx, incoming_data_rx, inch, inrx, lock, bcur, permits,
                   sem_size, acc, wr, outch, app, nconn, nline, hist, cli>>

\* reader.lines() yields an error (connection reset): line? returns
ReadError(c) ==
    /\ hnd[c].pc = "read"
    /\ sock[c].peer = "closed"
    /\ ~sock[c].down
    /\ hnd' = [hnd EXCEPT ![c].pc = "dec"]
    /\ UNCHANGED <<max_clients, outgoing_queue_size, clinet_id, client_count, clients,
                   incoming_data_tx, incoming_data_rx, inch, inrx, lock, bcur, permits,
                   sem_size, acc, wr, outch, sock, app, nconn, nline, hist, cli>>

\* the worker closure: inner.client_count.fetch_sub(1)
CountDown(c) ==
    /\ hnd[c].pc = "dec"
    /\ client_count' = client_count - 1
    /\ hnd' = [hnd EXCEPT ![c].pc = "remove"]
    /\ hist' = [hist EXCEPT !.decs[c] = @ + 1]
    /\ UNCHANGED <<max_clients, outgoing_queue_size, clinet_id, clients,
                   incoming_data_tx, incoming_data_rx, inch, inrx, lock, bcur, permits,
                   sem_size, acc, wr, outch, sock, app, nconn, nline, cli>>

\* faulty variant: the first entry is removed, not the handler's own
RemoveLowestKey(map, id) ==
    [i \in DOMAIN map \ {CHOOSE k \in DOMAIN map : \A j \in DOMAIN map : k <= j} |-> map[i]]

\* BTreeMap::remove
RemoveKey(map, id) == [i \in DOMAIN map \ {id} |-> map[i]]

\* faulty variant: the registry is changed without its lock
RemoveUnlocked(c) ==
    /\ hnd[c].pc = "remove"
    /\ clients' = RemoveKey(clients, hnd[c].id)
    /\ hnd' = [hnd EXCEPT ![c].pc = "release"]
    /\ hist' = [hist EXCEPT !.removes[c] = @ + 1]
    /\ UNCHANGED <<max_clients, outgoing_queue_size, clinet_id, client_count,
                   incoming_data_tx, incoming_data_rx, inch, inrx, lock, bcur, permits,
                   sem_size, acc, wr, outch, sock, app, nconn, nline, cli>>

\* the worker closure: inner.clients.lock().remove(&client_id)
Remove(c) ==
    /\ hnd[c].pc = "remove"
    /\ lock = NoThread
    /\ clients' = RemoveKey(clients, hnd[c].id)
    /\ hnd' = [hnd EXCEPT ![c].pc = "release"]
    /\ hist' = [hist EXCEPT !.removes[c] = @ + 1]
    /\ UNCHANGED <<max_clients, outgoing_queue_size, clinet_id, client_count,
                   incoming_data_tx, incoming_data_rx, inch, inrx, lock, bcur, permits,
                   sem_size, acc, wr, outch, sock, app, nconn, nline, cli>>

\* faulty variant: the permit is forgotten (mem::forget), never returned
ReleaseLeaksPermit(c) ==
    /\ hnd[c].pc = "release"
    /\ permits' = permits
    /\ hnd' = [hnd EXCEPT ![c].pc = "gone"]
    /\ hist' = [hist EXCEPT !.releases[c] = @ + 1]
    /\ UNCHANGED <<max_clients, outgoing_queue_size, clinet_id, client_count, clients,
                   incoming_data_tx, incoming_data_rx, inch, inrx, lock, bcur,
                   sem_size, acc, wr, outch, sock, app, nconn, nline, cli>>

\* the worker closure ends: _permission is dropped
Release(c) ==
    /\ hnd[c].pc = "release"
    /\ permits' = permits + 1
    /\ hnd' = [hnd EXCEPT ![c].pc = "gone"]
    /\ hist' = [hist EXCEPT !.releases[c] = @ + 1]
    /\ UNCHANGED <<max_clients, outgoing_queue_size, clinet_id, client_count, clients,
                   incoming_data_tx, incoming_data_rx, inch, inrx, lock, bcur,
                   sem_size, acc, wr, outch, sock, app, nconn, nline, cli>>

\* --------------------------------------------------------- the writer thread
\* the sender in the registry is the only one: the channel closes when the
\* registry entry is removed
SenderGone(c) == hnd[c].pc \in {"release", "gone"}

\* a write_all would not return Ok at once: the socket is shut down, the peer
\* is gone, or the kernel's buffers are full
WriteStalls(c) == sock[c].down \/ sock[c].peer = "closed" \/ sock[c].sbuf >= SockCap

\* for (direction, data) in outgoing_data_rx, and the three write_all calls
\* when they succeed at once
WriterRecvWrite(c) ==
    /\ wr[c].pc = "recv"
    /\ Len(outch[c].q) > 0
    /\ ~WriteStalls(c)
    /\ outch' = [outch EXCEPT ![c].q = Tail(@)]
    /\ sock' = [sock EXCEPT ![c].wire = @ \o EncodeFrame(Head(outch[c].q)),
                            ![c].sbuf = @ + 1]
    /\ hist' = [hist EXCEPT !.dequeued[c] = Append(@, Head(outch[c].q))]
    /\ UNCHANGED <<max_clients, outgoing_queue_size, clinet_id, client_count, clients,
                   incoming_data_tx, incoming_data_rx, inch, inrx, lock, bcur, permits,
                   sem_size, acc, hnd, wr, app, nconn, nline, cli>>

\* for (direction, data) in outgoing_data_rx, with the write still to come
WriterRecv(c) ==
    /\ wr[c].pc = "recv"
    /\ Len(outch[c].q) > 0
    /\ WriteStalls(c)
    /\ wr' = [wr EXCEPT ![c].pc = "write", ![c].msg = Head(outch[c].q)]
    /\ outch' = [outch EXCEPT ![c].q = Tail(@)]
    /\ hist' = [hist EXCEPT !.dequeued[c] = Append(@, Head(outch[c].q))]
    /\ UNCHANGED <<max_clients, outgoing_queue_size, clinet_id, client_count, clients,
                   incoming_data_tx, incoming_data_rx, inch, inrx, lock, bcur, permits,
                   sem_size, acc, hnd, sock, app, nconn, nline, cli>>

\* the queue is empty and closed: the loop ends
WriterClosed(c) ==
    /\ wr[c].pc = "recv"
    /\ Len(outch[c].q) = 0
    /\ SenderGone(c)
    /\ wr' = [wr EXCEPT ![c].pc = "done"]
    /\ outch' = [outch EXCEPT ![c].rx = FALSE]
    /\ UNCHANGED <<max_clients, outgoing_queue_size, clinet_id, client_count, clients,
                   incoming_data_tx, incoming_data_rx, inch, inrx, lock, bcur, permits,
                   sem_size, acc, hnd, sock, app, nconn, nline, hist, cli>>

\* the three write_all calls succeed after waiting
WriterWrite(c) ==
    /\ wr[c].pc = "write"
    /\ ~sock[c].down
    /\ sock[c].sbuf < SockCap
    /\ sock' = [sock EXCEPT ![c].wire = @ \o EncodeFrame(wr[c].msg), ![c].sbuf = @ + 1]
    /\ wr' = [wr EXCEPT ![c].pc = "recv", ![c].msg = <<>>]
    /\ UNCHANGED <<max_clients, outgoing_queue_size, clinet_id, client_count, clients,
                   incoming_data_tx, incoming_data_rx, inch, inrx, lock, bcur, permits,
                   sem_size, acc, hnd, outch, app, nconn, nline, hist, cli>>

\* faulty variant: the writer exits without shutting the socket down
WriterFailNoShutdown(c) ==
    /\ wr[c].pc = "write"
    /\ WriteStalls(c)
    /\ \E part \in PartialFrames(wr[c].msg) :
           sock' = [sock EXCEPT ![c].wire = @ \o part]
    /\ wr' = [wr EXCEPT ![c].pc = "done", ![c].msg = <<>>]
    /\ outch' = [outch EXCEPT ![c].rx = FALSE]
    /\ UNCHANGED <<max_clients, outgoing_queue_size, clinet_id, client_count, clients,
                   incoming_data_tx, incoming_data_rx, inch, inrx, lock, bcur, permits,
                   sem_size, acc, hnd, app, nconn, nline, hist, cli>>

\* one write_all fails (socket shut down, peer gone, or the write timeout with
\* the buffers full): writer.shutdown(Shutdown::Both), break
WriterFail(c) ==
    /\ wr[c].pc = "write"
    /\ WriteStalls(c)
    /\ \E part \in PartialFrames(wr[c].msg) :
           sock' = [sock EXCEPT ![c].wire = @ \o part, ![c].down = TRUE]
    /\ wr' = [wr EXCEPT ![c].pc = "done", ![c].msg = <<>>]
    /\ outch' = [outch EXCEPT ![c].rx = FALSE]
    /\ UNCHANGED <<max_clients, outgoing_queue_size, clinet_id, client_count, clients,
                   incoming_data_tx, incoming_data_rx, inch, inrx, lock, bcur, permits,
                   sem_size, acc, hnd, app, nconn, nline, hist, cli>>

\* ------------------------------------------------------------------ the peers
PeerConnect ==
    /\ nconn < MaxConn
    /\ MoreEvents
    /\ nconn' = nconn + 1
    /\ sock' = [sock EXCEPT ![nconn].peer = "open"]
    /\ UNCHANGED <<max_clients, outgoing_queue_size, clinet_id, client_count, clients,
                   incoming_data_tx, incoming_data_rx, inch, inrx, lock, bcur, permits,
                   sem_size, acc, hnd, wr, outch, app, nline, hist, cli>>

\* Client::try_send: write_all(format!("{}\n", data))
PeerSend(c) ==
    /\ sock[c].peer = "open"
    /\ nline < MaxLines
    /\ MoreEvents
    /\ nline' = nline + 1
    /\ sock' = [sock EXCEPT ![c].c2s = @ \o LineData(nline + 1) \o <<"\n">>]
    /\ hist' = [hist EXCEPT !.csent[c] = Append(@, LineData(nline + 1))]
    /\ UNCHANGED <<max_clients, outgoing_queue_size, clinet_id, client_count, clients,
                   incoming_data_tx, incoming_data_rx, inch, inrx, lock, bcur, permits,
                   sem_size, acc, hnd, wr, outch, app, nconn, cli>>

\* the peer reads what the kernel has buffered for it
PeerRead(c) ==
    /\ sock[c].peer = "open"
    /\ sock[c].sbuf > 0
    /\ sock' = [sock EXCEPT ![c].sbuf = 0]
    /\ UNCHANGED <<max_clients, outgoing_queue_size, clinet_id, client_count, clients,
                   incoming_data_tx, incoming_data_rx, inch, inrx, lock, bcur, permits,
                   sem_size, acc, hnd, wr, outch, app, nconn, nline, hist, cli>>

\* the peer closes its socket
PeerClose(c) ==
    /\ sock[c].peer = "open"
    /\ sock' = [sock EXCEPT ![c].peer = "closed"]
    /\ UNCHANGED <<max_clients, outgoing_queue_size, clinet_id, client_count, clients,
                   incoming_data_tx, incoming_data_rx, inch, inrx, lock, bcur, permits,
                   sem_size, acc, hnd, wr, outch, app, nconn, nline, hist, cli>>

\* -------------------------------------------------------------------- Spec
Next ==
    \/ \E n \in 1..MaxClients : set_max_clients(n)
    \/ \E n \in 1..MaxOutQueue : set_outgoing_queue_size(n)
    \/ \E n \in 1..MaxInQueue : set_incoming_queue_size(n)
    \/ take_data_channel
    \/ AppRecv
    \/ AppDropReceiver
    \/ send
    \/ \E t \in Conns \cup {AppThread} : SendLock(t) \/ SendOffer(t)
    \/ serve_with_listener
    \/ Accept
    \/ Acquire
    \/ Insert
    \/ CountSpawn
    \/ \E c \in Conns :
          \/ HandshakeOk(c)
          \/ HandshakeFail(c)
          \/ ReadPublish(c)
          \/ ReadWait(c)
          \/ Publish(c)
          \/ ReadEof(c)
          \/ ReadError(c)
          \/ CountDown(c)
          \/ Remove(c)
          \/ Release(c)
          \/ WriterRecvWrite(c)
          \/ WriterRecv(c)
          \/ WriterClosed(c)
          \/ WriterWrite(c)
          \/ WriterFail(c)
    \/ PeerConnect
    \/ \E c \in Conns : PeerSend(c) \/ PeerRead(c) \/ PeerClose(c)


Spec == Init /\ [][Next]_vars
\* ------------------------------------------------------------ the properties
\* handlers that hold a permit: from semaphore.acquire() to the end of the
\* worker closure
PermitHolders ==
    {c \in Conns : hnd[c].pc \notin {"none", "gone"}} \cup
    (IF acc.pc \in {"insert", "count"} THEN {acc.sock} ELSE {})

Registered == {clients[id] : id \in DOMAIN clients}

\* C1: whenever a thread holds the registry lock, client_count equals the
\* number of entries of the registry.
C1_CountEqualsRegistry ==
    lock # NoThread => client_count = Cardinality(DOMAIN clients)

\* C2: with the semaphore created for k = max_clients at the start of
\* serve_with_listener, at most k handlers hold a permit, the registry holds at
\* most k entries, and a socket accepted while k handlers run is neither
\* registered nor sent a byte.
C2_AdmissionControl ==
    acc.pc # "idle" =>
        /\ Cardinality(PermitHolders) <= sem_size
        /\ Cardinality(DOMAIN clients) <= sem_size
        /\ permits = sem_size - Cardinality(PermitHolders)
        /\ (acc.pc = "acquire" /\ Cardinality(PermitHolders) = sem_size) =>
               /\ acc.sock \notin Registered
               /\ sock[acc.sock].wire = <<>>

\* a socket waits in semaphore.acquire() while k handlers run, after
\* set_max_clients has changed max_clients
C2_Witness ==
    /\ acc.pc = "acquire"
    /\ permits = 0
    /\ Cardinality(PermitHolders) = sem_size
    /\ max_clients # sem_size
\* a thread waits to broadcast, or is in the middle of it
Busy(t) == Broadcasting(t)

\* C4: a broadcasting thread can always take its next step: the first
\* try_send as soon as the registry lock is free, every later one while it
\* holds the lock, whatever the state of the queues; the last one releases the
\* lock.
C4_BroadcastNeverWaits ==
    \A t \in Conns \cup {AppThread} :
        /\ (Busy(t) /\ lock = NoThread) => ENABLED SendLock(t)
        /\ lock = t => Busy(t) /\ ENABLED SendOffer(t)

\* a broadcaster holds the lock and the next queue is full, or closed
C4_Witness ==
    /\ lock # NoThread
    /\ KeysAfter(bcur) # {}
    /\ TrySendOutcome(outch[clients[NextKey(bcur)]]) = "full"
    /\ \E c \in Conns : ~outch[c].rx /\ hist.offered[c] # {}

IsPrefix(p, s) == Len(p) <= Len(s) /\ SubSeq(s, 1, Len(p)) = p

\* how often p occurs in s
Occurrences(p, s) ==
    Cardinality({i \in 1..Len(s) : i + Len(p) - 1 <= Len(s) /\ SubSeq(s, i, i + Len(p) - 1) = p})

\* C6: what the server has written to a socket is empty or starts with the
\* handshake, which occurs once in it; before the handshake is written nothing
\* is, and no writer thread runs.
C6_HandshakeFirst ==
    \A c \in Conns :
        /\ sock[c].wire # <<>> =>
               /\ IsPrefix(Handshake, sock[c].wire)
               /\ Occurrences(Handshake, sock[c].wire) = 1
               /\ Occurrences(GREETING, sock[c].wire) = 1
        /\ hnd[c].pc \in {"none", "handshake"} => sock[c].wire = <<>> /\ wr[c].pc = "none"

\* a broadcast is queued for a client whose handshake is still to be written,
\* while another socket already carries a frame after its handshake
C6_Witness ==
    \E c, d \in Conns :
        /\ hnd[c].pc = "handshake"
        /\ Len(outch[c].q) > 0
        /\ Len(sock[d].wire) > Len(Handshake)

\* C8: at most one take_data_channel call returns the receiver: until one has,
\* the receiver is there to take and no call has failed; once one has, the
\* receiver is gone for good and every call fails.
C8_TakeOnce ==
    /\ app.takes <= 1
    /\ app.takes = 0 => incoming_data_rx # NoChan /\ app.last_take = "none"
    /\ app.takes = 1 => incoming_data_rx = NoChan

\* the receiver was taken, set_incoming_queue_size was called after that, and
\* a later take_data_channel failed
C8_Witness ==
    /\ app.takes = 1
    /\ app.last_take = "DataChannelTaken"
    /\ app.calls = 3
    /\ app.nsend = 0
    /\ FreshChan = 1

\* C9: each handler decrements client_count once, removes its own id once and
\* releases its permit once, in that order, however it ends; the registry
\* always holds exactly the ids of the handlers that have not removed theirs.
C9_TeardownOnce ==
    /\ \A c \in Conns :
           /\ hist.decs[c] = (IF hnd[c].pc \in {"remove", "release", "gone"} THEN 1 ELSE 0)
           /\ hist.removes[c] = (IF hnd[c].pc \in {"release", "gone"} THEN 1 ELSE 0)
           /\ hist.releases[c] = (IF hnd[c].pc = "gone" THEN 1 ELSE 0)
    /\ Registered =
           {c \in Conns : hnd[c].pc \in {"handshake", "read", "publish", "echo", "dec", "remove"}}
           \cup (IF acc.pc = "count" THEN {acc.sock} ELSE {})
    /\ \A id \in DOMAIN clients : hnd[clients[id]].id = id
    /\ client_count = Cardinality({c \in Conns : hnd[c].pc \in {"handshake", "read", "publish", "echo", "dec"}})
    /\ acc.pc # "idle" => permits = sem_size - Cardinality(PermitHolders)

\* one handler is gone after its writer failed, while the other client is
\* still registered and served
C9_Witness ==
    \E c, d \in Conns :
        /\ c # d
        /\ hnd[c].pc = "gone"
        /\ wr[c].pc = "done"
        /\ sock[c].down
        /\ hnd[d].pc = "read"
        /\ d \in Registered
Threads == Conns \cup {AppThread}

\* complete frames on the wire of socket c, after the handshake
FramesOn(c) ==
    IF sock[c].wire = <<>> THEN 0 ELSE Occurrences(<<"\n">>, sock[c].wire) - 2

\* the peer of c has read nothing: every frame written is still buffered
NeverRead(c) == sock[c].sbuf = FramesOn(c)

\* the writer of c has taken nothing from the queue, and the queue is open
NothingDequeued(c) ==
    /\ outch[c].rx
    /\ wr[c].pc \in {"none", "recv"}
    /\ Len(sock[c].wire) <= Len(Handshake)

Min(a, b) == IF a < b THEN a ELSE b

\* thread t ends its broadcast in this step
Finishes(t) == Busy(t) /\ ~Busy(t)'

\* C3 as claimed: for a connected client whose peer has read nothing, the
\* queue takes the first outgoing_queue_size broadcasts and every further one
\* is dropped.
C3_NeverReadingClientDrops ==
    \A c \in Conns :
        (/\ sock[c].peer = "open" /\ ~sock[c].down /\ outch[c].rx
         /\ NeverRead(c)
         /\ Cardinality(hist.offered[c]) > outch[c].cap) =>
            Cardinality(hist.lost[c]) = Cardinality(hist.offered[c]) - outch[c].cap

\* what one try_send does to client c with message m
DropPolicy(c, m) ==
    CASE outch[c].rx /\ Len(outch[c].q) < outch[c].cap ->
            /\ outch'[c].q = Append(outch[c].q, m)
            /\ m \in hist'.enq[c] /\ m \notin hist'.lost[c]
      [] outch[c].rx /\ Len(outch[c].q) >= outch[c].cap ->
            /\ outch'[c].q = outch[c].q
            /\ m \in hist'.lost[c] /\ m \notin hist'.enq[c]
      [] OTHER ->
            /\ outch'[c].q = outch[c].q
            /\ m \notin hist'.lost[c] /\ m \notin hist'.enq[c]

C3_Queues ==
    \A c \in Conns :
        /\ Len(outch[c].q) <= outch[c].cap
        /\ hist.enq[c] \cap hist.lost[c] = {}
        /\ hist.enq[c] \cup hist.lost[c] \subseteq hist.offered[c]
        /\ NothingDequeued(c) =>
               /\ Cardinality(hist.enq[c]) = Min(Cardinality(hist.offered[c]), outch[c].cap)
               /\ Cardinality(hist.lost[c]) = Cardinality(hist.offered[c]) - Cardinality(hist.enq[c])

C3_Step ==
    /\ \A c \in Conns : \A m \in hist'.offered[c] \ hist.offered[c] : DropPolicy(c, m)
    /\ \A t \in Threads :
           Finishes(t) => \A id \in DOMAIN clients : BMsg(t) \in hist'.offered[clients[id]]

\* C3 (amended): a queue never holds more than its capacity; a broadcast is
\* dropped for a client exactly when its queue is full at that moment, is
\* enqueued when the queue is open with room, and reaches every entry of the
\* registry whatever happened at the others; while the writer has dequeued
\* nothing, the first outgoing_queue_size broadcasts are kept and the later
\* ones dropped.
C3_DropOnOverflow == []C3_Queues /\ [][C3_Step]_vars

\* a broadcast was dropped for one client and enqueued for the other
C3_Witness ==
    \E c, d \in Conns : c # d /\ hist.lost[c] \cap hist.enq[d] # {}

\* lines the handler of c has taken from its socket
Consumed(c) ==
    SubSeq(hist.csent[c], 1, Len(hist.csent[c]) - Occurrences(<<"\n">>, sock[c].c2s))

Range(f) == {f[i] : i \in DOMAIN f}

\* incoming_data_tx.send(line) of the handler of c returns in this step, and
\* the line it was called with
Publishes(c) ==
    \/ hnd[c].pc = "read" /\ hnd'[c].pc \in {"echo", "dec"} /\ sock'[c].c2s # sock[c].c2s
    \/ hnd[c].pc = "publish" /\ hnd'[c].pc # "publish"
PublishedLine(c) ==
    IF hnd[c].pc = "publish" THEN hnd[c].line ELSE FirstLine(sock[c].c2s)

\* C5 as claimed: every line a handler takes is appended to the incoming
\* channel, and its echo is enqueued for every client of the registry.
C5_EveryLineLoopsBack ==
    [][\A c \in Conns :
          /\ Publishes(c) => hist'.inlog = Append(hist.inlog, PublishedLine(c))
          /\ Finishes(c) =>
                 \A id \in DOMAIN clients : BMsg(c) \in hist'.enq[clients[id]]]_vars

C5_Lines ==
    /\ \A i, j \in DOMAIN hist.inlog : hist.inlog[i] = hist.inlog[j] => i = j
    /\ \A c \in Conns :
           /\ \A m \in hist.offered[c] :
                  m[2] \in UNION {Range(hist.csent[d]) : d \in Conns} =>
                      m[1] = ClientToServer /\ m[2] \in Range(hist.inlog)
           /\ \A i \in DOMAIN Consumed(c) :
                  LET line == Consumed(c)[i]
                  IN  IF line \in Range(hist.inlog)
                      THEN Busy(c) \/ <<ClientToServer, line>> \in hist.offered[c]
                      ELSE /\ i = Len(Consumed(c))
                           /\ \/ hnd[c].pc = "publish" /\ hnd[c].line = line
                              \/ /\ hnd[c].pc \in {"dec", "remove", "release", "gone"}
                                 /\ ~inch[hnd[c].tx].rx
                           /\ \A d \in Conns : <<ClientToServer, line>> \notin hist.offered[d]

C5_Step ==
    /\ (\A c \in Conns : ~Publishes(c)) => hist'.inlog = hist.inlog
    /\ \A c \in Conns :
        /\ Publishes(c) =>
               IF inch[hnd[c].tx].rx
               THEN hist'.inlog = Append(hist.inlog, PublishedLine(c))
               ELSE hist'.inlog = hist.inlog /\ hnd'[c].pc = "dec"
        /\ Finishes(c) =>
               /\ hnd[c].id \in DOMAIN clients
               /\ \A id \in DOMAIN clients : BMsg(c) \in hist'.offered[clients[id]]
               /\ BMsg(c) = <<ClientToServer, hnd[c].line>>

\* C5 (amended): a line a handler takes is enqueued on the incoming channel
\* once, when its send returns after waiting for room, if the channel's
\* receiver is alive, and otherwise not at all, and then it is not echoed and
\* the handler ends; a line that was enqueued is offered
\* with direction ClientToServer to every client of the registry, the sender
\* included, and is enqueued where DropPolicy says so.
C5_Loopback == []C5_Lines /\ [][C5_Step /\ C3_Step]_vars

\* the line of one client is on the incoming channel and in the queues of
\* both clients
C5_Witness ==
    \E c, d \in Conns :
        /\ c # d
        /\ hnd[c].pc = "read"
        /\ Len(hist.csent[c]) > 0
        /\ hist.csent[c][1] \in Range(hist.inlog)
        /\ <<ClientToServer, hist.csent[c][1]>> \in hist.enq[c] \cap hist.enq[d]
\* ------------------------------------------------------- client.rs: the reader
\* str::strip_prefix: <<TRUE, the rest>> when line starts with prefix
strip_prefix(line, prefix) ==
    IF Len(line) >= Len(prefix) /\ SubSeq(line, 1, Len(prefix)) = prefix
    THEN <<TRUE, SubSeq(line, Len(prefix) + 1, Len(line))>>
    ELSE <<FALSE, <<>>>>

\* the bytes of socket 0 the client's BufReader has not yet consumed
Unread == SubSeq(sock[0].wire, cli.pos + 1, Len(sock[0].wire))

\* one end has shut the socket down: a read returns 0 once the bytes that
\* arrived are consumed
Eof == sock[0].down \/ sock[0].peer = "closed"

\* BufRead::lines at the end of the stream: bytes after the last "\n" are a
\* line too, yielded as they are
LineReady == HasLine(Unread) \/ (Eof /\ Len(Unread) > 0)
YieldLine == IF HasLine(Unread) THEN FirstLine(Unread) ELSE Unread
LineSpan == IF HasLine(Unread) THEN IndexOf(Unread, "\n", 1) ELSE Len(Unread)

\* the events in the client's channel: sent by the reader, not yet received
ChannelLen == Len(cli.events) - cli.recvd

\* faulty variant: the flag is left as it is
QuitKeepsConnected(base) ==
    /\ cli' = [base EXCEPT !.pc = "quit", !.held = <<>>]
    /\ sock' = [sock EXCEPT ![0].sbuf = 0, ![0].peer = "closed"]

\* quit!() and what follows the loop: stream.shutdown(Both), break,
\* connected.store(false)
Quit(base) ==
    /\ cli' = [base EXCEPT !.pc = "quit", !.connected = FALSE, !.held = <<>>]
    /\ sock' = [sock EXCEPT ![0].sbuf = 0, ![0].peer = "closed"]

\* report_msg!: tx.send fails when the receiver is gone, waits while the
\* channel is full
report_msg(base, dir, msg) ==
    IF ~cli.rx
    THEN Quit(base)
    ELSE /\ sock' = [sock EXCEPT ![0].sbuf = 0]
         /\ cli' = IF ChannelLen >= cli.cap
                   THEN [base EXCEPT !.pc = "sending", !.held = <<dir, msg>>]
                   ELSE [base EXCEPT !.events = Append(@, <<dir, msg>>)]

\* faulty variant: a bare line with no direction before it is delivered as
\* ServerToClient
ClientLineDefaultsDirection ==
    /\ cli.pc = "reading"
    /\ LineReady
    /\ LET line == YieldLine
           c2s == strip_prefix(line, as_str(ClientToServer))
           s2c == strip_prefix(line, as_str(ServerToClient))
           at == [cli EXCEPT !.pos = cli.pos + LineSpan]
       IN  IF c2s[1]
           THEN report_msg([at EXCEPT !.last_direction = ClientToServer],
                           ClientToServer, c2s[2])
           ELSE IF s2c[1]
           THEN report_msg([at EXCEPT !.last_direction = ServerToClient],
                           ServerToClient, s2c[2])
           ELSE report_msg(at, IF cli.last_direction = "None" THEN ServerToClient
                                ELSE cli.last_direction, line)
    /\ UNCHANGED <<max_clients, outgoing_queue_size, clinet_id, client_count, clients,
                   incoming_data_tx, incoming_data_rx, inch, inrx, lock, bcur, permits,
                   sem_size, acc, hnd, wr, outch, app, nconn, nline, hist>>

\* one round of `for line in reader.lines()` in the client's handle_connection:
\* the prefix decides the direction, a line without prefix continues the last
\* direction, and without a last direction the client quits
ClientLine ==
    /\ cli.pc = "reading"
    /\ LineReady
    /\ LET line == YieldLine
           c2s == strip_prefix(line, as_str(ClientToServer))
           s2c == strip_prefix(line, as_str(ServerToClient))
           at == [cli EXCEPT !.pos = cli.pos + LineSpan]
       IN  IF c2s[1]
           THEN report_msg([at EXCEPT !.last_direction = ClientToServer],
                           ClientToServer, c2s[2])
           ELSE IF s2c[1]
           THEN report_msg([at EXCEPT !.last_direction = ServerToClient],
                           ServerToClient, s2c[2])
           ELSE IF cli.last_direction = "None"
           THEN Quit(at)
           ELSE report_msg(at, cli.last_direction, line)
    /\ UNCHANGED <<max_clients, outgoing_queue_size, clinet_id, client_count, clients,
                   incoming_data_tx, incoming_data_rx, inch, inrx, lock, bcur, permits,
                   sem_size, acc, hnd, wr, outch, app, nconn, nline, hist>>

\* the reader waits in tx.send: the event goes in when there is room, and the
\* reader quits when the receiver is gone
ClientSend ==
    /\ cli.pc = "sending"
    /\ IF ~cli.rx
       THEN Quit(cli)
       ELSE /\ ChannelLen < cli.cap
            /\ cli' = [cli EXCEPT !.pc = "reading", !.held = <<>>,
                                  !.events = Append(@, cli.held)]
            /\ UNCHANGED sock
    /\ UNCHANGED <<max_clients, outgoing_queue_size, clinet_id, client_count, clients,
                   incoming_data_tx, incoming_data_rx, inch, inrx, lock, bcur, permits,
                   sem_size, acc, hnd, wr, outch, app, nconn, nline, hist>>

\* reader.lines() ends: connected.store(false)
ClientEof ==
    /\ cli.pc = "reading"
    /\ Eof
    /\ Len(Unread) = 0
    /\ cli' = [cli EXCEPT !.pc = "eof", !.connected = FALSE]
    /\ UNCHANGED <<max_clients, outgoing_queue_size, clinet_id, client_count, clients,
                   incoming_data_tx, incoming_data_rx, inch, inrx, lock, bcur, permits,
                   sem_size, acc, hnd, wr, outch, sock, app, nconn, nline, hist>>

\* ------------------------------------------------- one frame, server to client
\* the bytes a payload is made of: a letter, a carriage return, and the two
\* characters of the prefixes; never "\n"
PayloadBytes == {"a", "\r", ">", "<"}
Payloads == UNION {[1..n -> PayloadBytes] : n \in 0..MaxPayload}

\* the server with one rflow client connected (connect_with_options has
\* returned: the handshake is on the wire and consumed), and either the
\* application inside Server::send(P), or the bytes of Client::try_send(P)
\* on their way to the server
FrameInit ==
    /\ max_clients = 1
    /\ outgoing_queue_size = 1
    /\ clinet_id = 1
    /\ client_count = 1
    /\ clients = [i \in {0} |-> 0]
    /\ incoming_data_tx = 0
    /\ incoming_data_rx = 0
    /\ inch = [i \in 0..(MaxInChans - 1) |-> IF i = 0 THEN NewChannel(1) ELSE NoChannel]
    /\ inrx = [i \in 0..(MaxInChans - 1) |-> IF i = 0 THEN "server" ELSE "none"]
    /\ lock = NoThread
    /\ bcur = -1
    /\ permits = 0
    /\ sem_size = 1
    /\ acc = [pc |-> "accept", sock |-> 0, id |-> 0]
    /\ wr = [c \in Conns |-> [pc |-> IF c = 0 THEN "recv" ELSE "none", msg |-> <<>>]]
    /\ outch = [c \in Conns |-> IF c = 0 THEN NewChannel(1) ELSE NoChannel]
    /\ nconn = 1
    /\ cli = [IdleClient EXCEPT !.pc = "reading", !.pos = Len(Handshake),
                               !.from = Len(Handshake), !.version = 1,
                               !.connected = TRUE, !.handles = 1]
    /\ \E P \in Payloads, D \in {ClientToServer, ServerToClient} :
         /\ hnd = [c \in Conns |->
                     [pc |-> IF c = 0 THEN "read" ELSE "none", id |-> 0, line |-> <<>>,
                      tx |-> IF c = 0 THEN 0 ELSE NoChan]]
         /\ sock = [c \in Conns |->
                      [peer |-> IF c = 0 THEN "open" ELSE "none",
                       c2s |-> IF c = 0 /\ D = ClientToServer THEN P \o <<"\n">> ELSE <<>>,
                       sbuf |-> 0, down |-> FALSE,
                       wire |-> IF c = 0 THEN Handshake ELSE <<>>]]
         /\ app = [pc |-> IF D = ServerToClient THEN "bcast" ELSE "idle",
                   msg |-> IF D = ServerToClient THEN P ELSE <<>>,
                   calls |-> IF D = ServerToClient THEN 1 ELSE 0,
                   nsend |-> IF D = ServerToClient THEN 1 ELSE 0,
                   takes |-> 0, last_take |-> "none",
              nset |-> 0, last_set |-> "none"]
         /\ nline = IF D = ClientToServer THEN 1 ELSE 0
         /\ hist = [inlog |-> <<>>,
                    enq |-> [c \in Conns |-> {}],
                    lost |-> [c \in Conns |-> {}],
                    offered |-> [c \in Conns |-> {}],
                    csent |-> [c \in Conns |-> IF c = 0 /\ D = ClientToServer THEN <<P>> ELSE <<>>],
                    decs |-> [c \in Conns |-> 0],
                    removes |-> [c \in Conns |-> 0],
                    releases |-> [c \in Conns |-> 0],
               queued |-> [c \in Conns |-> <<>>],
               dequeued |-> [c \in Conns |-> <<>>],
               before |-> {}]

FrameNext ==
    \/ ReadPublish(0)
    \/ \E t \in {0, AppThread} : SendLock(t)
    \/ WriterRecvWrite(0)
    \/ ClientLine

FrameSpec == FrameInit /\ [][FrameNext]_vars

\* the one broadcast has been written to socket 0 and the client has read all
\* of what the server wrote
FrameDelivered ==
    /\ hist.enq[0] # {}
    /\ outch[0].q = <<>>
    /\ wr[0].pc = "recv"
    /\ cli.pos = Len(sock[0].wire)

\* C7: for every payload P without "\n" and both directions D, the broadcast
\* of (D, P) makes the client's receiver yield exactly the one event (D, P):
\* the writer's encoding followed by the reader's decoding is the identity
C7_FramingRoundTrip ==
    FrameDelivered /\ Len(sock[0].wire) > Len(Handshake) =>
        \A m \in hist.enq[0] : cli.events = <<m>>

\* the payloads for which the round trip does hold: those that do not end in
\* a carriage return
C7_RoundTripWithoutCR ==
    FrameDelivered /\ Len(sock[0].wire) > Len(Handshake) =>
        \A m \in hist.enq[0] :
            (Len(m[2]) = 0 \/ m[2][Len(m[2])] # "\r") => cli.events = <<m>>

\* ------------------------------------------------------- threads and fairness
\* the steps of the accept loop, of the handler of socket c and of its writer
AcceptStep == Accept \/ Acquire \/ Insert \/ CountSpawn

HandlerStep(c) ==
    \/ HandshakeOk(c) \/ HandshakeFail(c)
    \/ ReadPublish(c) \/ ReadWait(c) \/ Publish(c) \/ ReadEof(c) \/ ReadError(c)
    \/ SendLock(c) \/ SendOffer(c)
    \/ CountDown(c) \/ Remove(c) \/ Release(c)

WriterStep(c) ==
    WriterRecvWrite(c) \/ WriterRecv(c) \/ WriterClosed(c) \/ WriterWrite(c) \/ WriterFail(c)

\* the server with an application that takes the data channel and receives
\* from it when it likes, and makes no other call
LiveNext ==
    \/ take_data_channel
    \/ AppRecv
    \/ serve_with_listener
    \/ Accept
    \/ Acquire
    \/ Insert
    \/ CountSpawn
    \/ \E c \in Conns :
          \/ HandshakeOk(c)
          \/ HandshakeFail(c)
          \/ ReadPublish(c)
          \/ ReadWait(c)
          \/ Publish(c)
          \/ ReadEof(c)
          \/ ReadError(c)
          \/ SendLock(c)
          \/ SendOffer(c)
          \/ CountDown(c)
          \/ Remove(c)
          \/ Release(c)
          \/ WriterRecvWrite(c)
          \/ WriterRecv(c)
          \/ WriterClosed(c)
          \/ WriterWrite(c)
          \/ WriterFail(c)
    \/ PeerConnect
    \/ \E c \in Conns : PeerSend(c) \/ PeerRead(c) \/ PeerClose(c)

\* every thread the server runs is an OS thread: one that can take a step is
\* scheduled in the end. Nothing makes the application or the peers act.
LiveSpec ==
    /\ Init
    /\ [][LiveNext]_vars
    /\ WF_vars(AcceptStep)
    /\ \A c \in Conns : WF_vars(HandlerStep(c)) /\ WF_vars(WriterStep(c))

\* the accept loop waits in semaphore.acquire() with socket w while socket c,
\* whose peer has closed, is one of the handlers holding the permits
WaitsBehind(c, w) ==
    /\ acc.pc = "acquire"
    /\ acc.sock = w
    /\ permits = 0
    /\ c \in PermitHolders
    /\ sock[c].peer = "closed"

\* the handler of c has ended and returned its permit, and w is admitted:
\* registered and sent the handshake (a waiting connection being one whose
\* peer has not itself closed in the meantime)
AdmittedAfter(c, w) ==
    /\ hist.releases[c] = 1
    /\ \/ hnd[w].pc # "none" /\ IsPrefix(Handshake, sock[w].wire)
       \/ sock[w].peer = "closed"

\* C10 as claimed: when the accept loop waits on the semaphore and one of the
\* admitted clients disconnects, its handler eventually ends and releases its
\* permit, and the waiting connection is eventually admitted.
C10_DisconnectAdmitsNext ==
    \A c, w \in Conns : WaitsBehind(c, w) ~> AdmittedAfter(c, w)

\* the handler of c waits in incoming_data_tx.send with a line in hand
InSend(c) == hnd[c].pc = "publish"

\* C10 (amended): the same, unless the handler of the disconnected client
\* waits for ever in its send to a full incoming channel that the application
\* does not drain.
C10_AdmitsNextUnlessInSend ==
    \A c, w \in Conns :
        (WaitsBehind(c, w) ~> AdmittedAfter(c, w)) \/ <>[]InSend(c)

\* the accept loop waits with the second socket, whose peer is there, while the
\* handler of the first, whose peer has closed, is about to return its permit
C10_Witness ==
    \E c, w \in Conns :
        /\ WaitsBehind(c, w)
        /\ sock[w].peer = "open"
        /\ hnd[c].pc = "release"

\* ------------------------------------- client.rs: Client::connect_with_options
\* str::split('/'): the fields of a line
RECURSIVE SplitSlash(_)
SplitSlash(line) ==
    LET n == IndexOf(line, "/", 1)
    IN  IF n = 0 THEN <<line>>
        ELSE <<SubSeq(line, 1, n - 1)>> \o SplitSlash(SubSeq(line, n + 1, Len(line)))

WhiteSpace == {" ", "\t", "\r"}

\* str::trim
RECURSIVE Trim(_)
Trim(f) ==
    IF Len(f) = 0 THEN f
    ELSE IF f[1] \in WhiteSpace THEN Trim(Tail(f))
    ELSE IF f[Len(f)] \in WhiteSpace THEN Trim(SubSeq(f, 1, Len(f) - 1))
    ELSE f

DigitChars == {"0", "1", "2", "3", "4", "5", "6", "7", "8", "9"}
DigitVal(ch) ==
    CASE ch = "0" -> 0 [] ch = "1" -> 1 [] ch = "2" -> 2 [] ch = "3" -> 3 [] ch = "4" -> 4
      [] ch = "5" -> 5 [] ch = "6" -> 6 [] ch = "7" -> 7 [] ch = "8" -> 8 [] OTHER -> 9

RECURSIVE Decimal(_)
Decimal(ds) ==
    IF Len(ds) = 0 THEN 0 ELSE 10 * Decimal(SubSeq(ds, 1, Len(ds) - 1)) + DigitVal(ds[Len(ds)])

U8Max == 255

\* str::parse::<u8>: an optional "+", then one or more digits, at most 255;
\* <<TRUE, value>> or <<FALSE, 0>>
ParseU8(f) ==
    LET ds == IF Len(f) > 0 /\ f[1] = "+" THEN Tail(f) ELSE f
    IN  IF Len(ds) > 0 /\ (\A k \in 1..Len(ds) : ds[k] \in DigitChars) /\ Decimal(ds) <= U8Max
        THEN <<TRUE, Decimal(ds)>>
        ELSE <<FALSE, 0>>

\* faulty variant: a version other than 1 is reported as InvalidData
GreetingOutcomeNoVersionError(line) ==
    LET sp == SplitSlash(line)
        v == IF Len(sp) >= 2 THEN ParseU8(Trim(sp[2])) ELSE <<FALSE, 0>>
    IN  IF sp[1] # GREETING THEN <<"InvalidData", 0>>
        ELSE IF Len(sp) < 2 THEN <<"InvalidData", 0>>
        ELSE IF ~v[1] THEN <<"InvalidData", 0>>
        ELSE IF v[2] # Decimal(API_VERSION) THEN <<"InvalidData", v[2]>>
        ELSE <<"none", v[2]>>

\* faulty variant: the name of the greeting is not checked
GreetingOutcomeAnyName(line) ==
    LET sp == SplitSlash(line)
        v == IF Len(sp) >= 2 THEN ParseU8(Trim(sp[2])) ELSE <<FALSE, 0>>
    IN  IF Len(sp) < 2 THEN <<"InvalidData", 0>>
        ELSE IF ~v[1] THEN <<"InvalidData", 0>>
        ELSE IF v[2] # Decimal(API_VERSION) THEN <<"ApiVersion", v[2]>>
        ELSE <<"none", v[2]>>

\* what the greeting line leads to: the error connect returns, or "none", and
\* the version parsed
GreetingOutcome(line) ==
    LET sp == SplitSlash(line)
        v == IF Len(sp) >= 2 THEN ParseU8(Trim(sp[2])) ELSE <<FALSE, 0>>
    IN  IF sp[1] # GREETING THEN <<"InvalidData", 0>>
        ELSE IF Len(sp) < 2 THEN <<"InvalidData", 0>>
        ELSE IF ~v[1] THEN <<"InvalidData", 0>>
        ELSE IF v[2] # Decimal(API_VERSION) THEN <<"ApiVersion", v[2]>>
        ELSE <<"none", v[2]>>

\* Operation::remaining: an error once the deadline of connect has passed
Expired == cli.now >= cli.timeout
Remaining == cli.timeout - cli.now

\* connect is inside a read of the handshake
Handshaking == cli.pc \in {"greeting", "headers"}

\* a read has waited for its timeout and no byte has come
ReadTimedOut ==
    Handshaking /\ ~LineReady /\ ~(Eof /\ Len(Unread) = 0) /\ cli.now - cli.since >= cli.rt

\* lines.next() yields the greeting: the checks of lines 92-111, then the read
\* timeout for the headers from op.remaining()
ClientGreeting ==
    /\ cli.pc = "greeting"
    /\ LineReady
    /\ LET r == GreetingOutcome(YieldLine)
       IN  cli' = IF r[1] # "none"
                  THEN [cli EXCEPT !.pc = "failed", !.error = r[1], !.version = r[2],
                                   !.pos = @ + LineSpan]
                  ELSE IF Expired
                  THEN [cli EXCEPT !.pc = "failed", !.error = "Timeout", !.version = r[2],
                                   !.pos = @ + LineSpan]
                  ELSE [cli EXCEPT !.pc = "headers", !.version = r[2], !.pos = @ + LineSpan,
                                   !.rt = Remaining, !.since = cli.now]
    /\ UNCHANGED <<max_clients, outgoing_queue_size, clinet_id, client_count, clients,
                   incoming_data_tx, incoming_data_rx, inch, inrx, lock, bcur, permits,
                   sem_size, acc, hnd, wr, outch, sock, app, nconn, nline, hist>>

\* faulty variant: a line that is not the end of the headers is InvalidData
ClientHeaderNoHeaders ==
    /\ cli.pc = "headers"
    /\ LineReady
    /\ IF YieldLine = HEADERS_TRANSMISSION_END
       THEN \E from \in (cli.pos + LineSpan)..Len(sock[0].wire) :
               cli' = [cli EXCEPT !.pc = "reading", !.pos = from, !.from = from,
                                  !.connected = TRUE, !.handles = 1]
       ELSE cli' = [cli EXCEPT !.pc = "failed", !.error = "InvalidData", !.pos = @ + LineSpan]
    /\ UNCHANGED <<max_clients, outgoing_queue_size, clinet_id, client_count, clients,
                   incoming_data_tx, incoming_data_rx, inch, inrx, lock, bcur, permits,
                   sem_size, acc, hnd, wr, outch, sock, app, nconn, nline, hist>>

\* one round of `for line in lines.by_ref()`: the end of the headers, or a
\* header to skip and the next read timeout. At the end connect returns the
\* Client and its reader thread starts with a BufReader of its own: the bytes
\* the first BufReader had taken from the socket beyond the headers are gone
ClientHeader ==
    /\ cli.pc = "headers"
    /\ LineReady
    /\ IF YieldLine = HEADERS_TRANSMISSION_END
       THEN \E from \in (cli.pos + LineSpan)..Len(sock[0].wire) :
               cli' = [cli EXCEPT !.pc = "reading", !.pos = from, !.from = from,
                                  !.connected = TRUE, !.handles = 1]
       ELSE cli' = IF Expired
                   THEN [cli EXCEPT !.pc = "failed", !.error = "Timeout", !.pos = @ + LineSpan]
                   ELSE [cli EXCEPT !.pos = @ + LineSpan, !.rt = Remaining, !.since = cli.now]
    /\ UNCHANGED <<max_clients, outgoing_queue_size, clinet_id, client_count, clients,
                   incoming_data_tx, incoming_data_rx, inch, inrx, lock, bcur, permits,
                   sem_size, acc, hnd, wr, outch, sock, app, nconn, nline, hist>>

\* the stream ends: lines.next() is None (line 92), or the loop over the
\* headers ends without the end of the headers (lines 123-126)
ClientHandshakeEof ==
    /\ Handshaking
    /\ Eof
    /\ Len(Unread) = 0
    /\ cli' = [cli EXCEPT !.pc = "failed", !.error = "InvalidData"]
    /\ UNCHANGED <<max_clients, outgoing_queue_size, clinet_id, client_count, clients,
                   incoming_data_tx, incoming_data_rx, inch, inrx, lock, bcur, permits,
                   sem_size, acc, hnd, wr, outch, sock, app, nconn, nline, hist>>

\* a read returns the io::Error of its timeout, and `?` makes it Error::Io
ClientReadTimeout ==
    /\ ReadTimedOut
    /\ cli' = [cli EXCEPT !.pc = "failed", !.error = "Io"]
    /\ UNCHANGED <<max_clients, outgoing_queue_size, clinet_id, client_count, clients,
                   incoming_data_tx, incoming_data_rx, inch, inrx, lock, bcur, permits,
                   sem_size, acc, hnd, wr, outch, sock, app, nconn, nline, hist>>

\* --------------------------------------------- a client and any TCP endpoint
\* what an endpoint may write first: a greeting line of either name, without a
\* version field or with one of up to three characters, also followed by a
\* further field
VersionChars == {"1", "2", "5", "6", " ", "x"}
VersionFields ==
    UNION {[1..n -> VersionChars] : n \in 0..2}
    \cup {<<"+", "2">>, <<"+">>, <<"0", "1">>, <<"2", "5", "5">>, <<"2", "5", "6">>,
          <<" ", "1", " ">>, <<" ", "2", " ">>, <<"1", " ", "1">>}
GreetingTails ==
    {<<>>} \cup {<<"/">> \o f : f \in VersionFields}
           \cup {<<"/">> \o f \o <<"/", "x">> : f \in {<<"1">>, <<"2">>, <<>>}}
GreetingChunks ==
    {name \o t \o <<"\n">> : name \in {GREETING, <<"F", "O", "O">>}, t \in GreetingTails}
    \cup {<<"R", "F">>}

\* and what it may write after that: headers, the end of the headers, frames,
\* bare lines and pieces of lines
LaterChunks ==
    {<<"h", "\n">>, HEADERS_TRANSMISSION_END \o <<"\n">>, <<"-", "-">>, <<"-", "\n">>,
     EncodeFrame(<<ClientToServer, <<"a">>>>), EncodeFrame(<<ServerToClient, <<"b">>>>),
     <<"c", "\n">>}

\* connect and the reader thread are over
ClientDone == cli.pc \in {"failed", "quit", "eof"}

\* the endpoint writes; a read of the handshake that was waiting returns with
\* the bytes, and the next one waits anew
EndpointWrite(first) ==
    /\ ~ClientDone
    /\ ~Eof
    /\ nline < MaxChunks
    /\ \E chunk \in (IF nline = 0 THEN first ELSE LaterChunks) :
           sock' = [sock EXCEPT ![0].wire = @ \o chunk]
    /\ nline' = nline + 1
    /\ cli' = IF Handshaking THEN [cli EXCEPT !.since = cli.now] ELSE cli
    /\ UNCHANGED <<max_clients, outgoing_queue_size, clinet_id, client_count, clients,
                   incoming_data_tx, incoming_data_rx, inch, inrx, lock, bcur, permits,
                   sem_size, acc, hnd, wr, outch, app, nconn, hist>>

\* the endpoint closes the connection
EndpointClose ==
    /\ ~ClientDone
    /\ ~Eof
    /\ sock' = [sock EXCEPT ![0].down = TRUE]
    /\ UNCHANGED <<max_clients, outgoing_queue_size, clinet_id, client_count, clients,
                   incoming_data_tx, incoming_data_rx, inch, inrx, lock, bcur, permits,
                   sem_size, acc, hnd, wr, outch, app, nconn, nline, hist, cli>>

\* time passes, but not beyond the timeout of a read that waits
Tick ==
    /\ Handshaking
    /\ cli.now < MaxTime
    /\ ~ReadTimedOut
    /\ cli' = [cli EXCEPT !.now = @ + 1]
    /\ UNCHANGED <<max_clients, outgoing_queue_size, clinet_id, client_count, clients,
                   incoming_data_tx, incoming_data_rx, inch, inrx, lock, bcur, permits,
                   sem_size, acc, hnd, wr, outch, sock, app, nconn, nline, hist>>

\* the server's variables when the other end of socket 0 is not a Server of
\* this process, and what that endpoint has written so far
EndpointInit(bytes) ==
    /\ max_clients = 1
    /\ outgoing_queue_size = 1
    /\ clinet_id = 0
    /\ client_count = 0
    /\ clients = [i \in {} |-> 0]
    /\ incoming_data_tx = 0
    /\ incoming_data_rx = 0
    /\ inch = [i \in 0..(MaxInChans - 1) |-> IF i = 0 THEN NewChannel(1) ELSE NoChannel]
    /\ inrx = [i \in 0..(MaxInChans - 1) |-> IF i = 0 THEN "server" ELSE "none"]
    /\ lock = NoThread
    /\ bcur = -1
    /\ permits = 0
    /\ sem_size = 0
    /\ acc = [pc |-> "idle", sock |-> 0, id |-> 0]
    /\ hnd = [c \in Conns |-> [pc |-> "none", id |-> 0, line |-> <<>>, tx |-> NoChan]]
    /\ wr = [c \in Conns |-> [pc |-> "none", msg |-> <<>>]]
    /\ outch = [c \in Conns |-> NoChannel]
    /\ sock = [c \in Conns |->
                 [peer |-> IF c = 0 THEN "open" ELSE "none", c2s |-> <<>>, sbuf |-> 0,
                  down |-> FALSE, wire |-> IF c = 0 THEN bytes ELSE <<>>]]
    /\ app = [pc |-> "idle", msg |-> <<>>, calls |-> 0, nsend |-> 0, takes |-> 0, last_take |-> "none",
              nset |-> 0, last_set |-> "none"]
    /\ nconn = 1
    /\ nline = 0
    /\ hist = [inlog |-> <<>>,
               enq |-> [c \in Conns |-> {}],
               lost |-> [c \in Conns |-> {}],
               offered |-> [c \in Conns |-> {}],
               csent |-> [c \in Conns |-> <<>>],
               decs |-> [c \in Conns |-> 0],
               removes |-> [c \in Conns |-> 0],
               releases |-> [c \in Conns |-> 0],
               queued |-> [c \in Conns |-> <<>>],
               dequeued |-> [c \in Conns |-> <<>>],
               before |-> {}]

\* TcpStream::connect_timeout has returned the stream of socket 0, the three
\* set_* calls are done (lines 77-89): Operation::new(timeout) at time 0
ConnectInit ==
    /\ EndpointInit(<<>>)
    /\ cli = [IdleClient EXCEPT !.pc = "greeting", !.timeout = MaxTimeout, !.rt = MaxTimeout]

\* connect against any greeting, with no read that waits for its timeout
ConnectNext ==
    \/ ClientGreeting
    \/ ClientHeader
    \/ ClientHandshakeEof
    \/ ClientLine
    \/ ClientEof
    \/ EndpointWrite(GreetingChunks)
    \/ EndpointClose

ConnectSpec == ConnectInit /\ [][ConnectNext]_vars

\* connect with its clock
TimedGreetings ==
    {GREETING \o <<"/", "1", "\n">>, GREETING \o <<"/", "2", "\n">>, <<"R", "F">>}

TimedInit ==
    /\ EndpointInit(<<>>)
    /\ \E t \in 1..MaxTimeout :
           cli = [IdleClient EXCEPT !.pc = "greeting", !.timeout = t, !.rt = t]

TimedNext ==
    \/ ClientGreeting
    \/ ClientHeader
    \/ ClientHandshakeEof
    \/ ClientReadTimeout
    \/ EndpointWrite(TimedGreetings)
    \/ EndpointClose
    \/ Tick

TimedSpec == TimedInit /\ [][TimedNext]_vars

\* the reader thread of a connected client, and what the endpoint writes after
\* the handshake
ReaderInit ==
    /\ EndpointInit(Handshake)
    /\ cli = [IdleClient EXCEPT !.pc = "reading", !.pos = Len(Handshake),
                               !.from = Len(Handshake), !.version = 1,
                               !.connected = TRUE, !.handles = 1]

ReaderNext ==
    \/ ClientLine
    \/ ClientEof
    \/ EndpointWrite(LaterChunks)
    \/ EndpointClose

ReaderSpec == ReaderInit /\ [][ReaderNext]_vars

\* ------------------------------------------------ properties of the client
\* the lines of a run of bytes, as BufRead::lines yields them
RECURSIVE SplitLines(_)
SplitLines(bytes) ==
    IF Len(bytes) = 0 THEN <<>>
    ELSE IF HasLine(bytes) THEN <<FirstLine(bytes)>> \o SplitLines(AfterFirstLine(bytes))
    ELSE <<bytes>>

\* the lines the reader thread has taken since it started
ReaderLines == SplitLines(SubSeq(sock[0].wire, cli.from + 1, cli.pos))

Prefixed(line) == IsPrefix(as_str(ClientToServer), line) \/ IsPrefix(as_str(ServerToClient), line)
PrefixOf(line) == IF IsPrefix(as_str(ClientToServer), line) THEN ClientToServer ELSE ServerToClient

\* the index of the last prefixed line before line i, 0 if there is none
LastPrefixed(ls, i) ==
    LET before == {j \in 1..(i - 1) : Prefixed(ls[j])}
    IN  IF before = {} THEN 0 ELSE CHOOSE j \in before : \A k \in before : k <= j

\* C11: a line without prefix is delivered whole, with the direction of the
\* most recent prefixed line of the stream; if there is no prefixed line
\* before it, it is the last line the reader takes: no event is delivered for
\* it, the socket is shut down and the reader has stopped.
C11_Continuation ==
    cli.pc \in {"reading", "quit", "eof"} =>
        LET ls == ReaderLines
        IN  \A i \in 1..Len(ls) :
                ~Prefixed(ls[i]) =>
                    IF LastPrefixed(ls, i) = 0
                    THEN /\ cli.pc = "quit"
                         /\ i = Len(ls)
                         /\ Len(cli.events) = i - 1
                         /\ sock[0].peer = "closed"
                    ELSE /\ Len(cli.events) >= i
                         /\ cli.events[i] = <<PrefixOf(ls[LastPrefixed(ls, i)]), ls[i]>>

\* a bare line after a ">>>" line was delivered as ClientToServer, and the
\* reader goes on
C11_Witness ==
    /\ cli.pc = "reading"
    /\ cli.events = <<<<ClientToServer, <<"a">>>>, <<ClientToServer, <<"c">>>>>>

\* the decimal numeral of n
DigitText(n) ==
    CASE n = 0 -> "0" [] n = 1 -> "1" [] n = 2 -> "2" [] n = 3 -> "3" [] n = 4 -> "4"
      [] n = 5 -> "5" [] n = 6 -> "6" [] n = 7 -> "7" [] n = 8 -> "8" [] OTHER -> "9"

RECURSIVE Numeral(_)
Numeral(n) ==
    IF n < 10 THEN <<DigitText(n)>> ELSE Numeral(n \div 10) \o <<DigitText(n % 10)>>

\* the lines of all the endpoint has written, and the first of them once
\* connect has taken it
WireLines == SplitLines(sock[0].wire)
GreetingTaken == cli.pc \notin {"none", "greeting"} /\ cli.pos > 0

\* C12: for every greeting RFLOW/v with a version v (a u8) other than 1,
\* connect returns ApiVersion(v), and it has read the greeting line and
\* nothing more.
C12_VersionGate ==
    GreetingTaken =>
        LET greeting == WireLines[1]
        IN  \A v \in 0..U8Max :
                (v # 1 /\ greeting = GREETING \o <<"/">> \o Numeral(v)) =>
                    /\ cli.pc = "failed"
                    /\ cli.error = "ApiVersion"
                    /\ cli.version = v
                    /\ SubSeq(sock[0].wire, 1, cli.pos) \in {greeting, greeting \o <<"\n">>}

\* connect returned ApiVersion(255) while a header line was there to read
C12_Witness ==
    /\ cli.error = "ApiVersion"
    /\ cli.version = 255
    /\ Len(WireLines) = 3
    /\ WireLines[3] = HEADERS_TRANSMISSION_END

\* the first field of a line, and the second if there is one
FieldEnd(line, from) ==
    IF IndexOf(line, "/", from) = 0 THEN Len(line) ELSE IndexOf(line, "/", from) - 1
FirstField(line) == SubSeq(line, 1, FieldEnd(line, 1))
HasSecondField(line) == IndexOf(line, "/", 1) > 0
SecondField(line) == SubSeq(line, FieldEnd(line, 1) + 2, FieldEnd(line, FieldEnd(line, 1) + 2))

\* f is the text of a u8: digits, after an optional "+", of a value up to 255;
\* and with white space around it
U8Text(f) ==
    \E v \in 0..U8Max, zeros \in 0..2, sign \in {<<>>, <<"+">>} :
        f = sign \o [k \in 1..zeros |-> "0"] \o Numeral(v)
PaddedU8Text(f) ==
    \E a \in 0..Len(f), b \in 1..(Len(f) + 1) :
        /\ a < b
        /\ \A k \in 1..a : f[k] \in WhiteSpace
        /\ \A k \in b..Len(f) : f[k] \in WhiteSpace
        /\ U8Text(SubSeq(f, a + 1, b - 1))

\* the greeting is RFLOW/1, and the line "---" has come after it
GoodGreeting(line) ==
    /\ FirstField(line) = GREETING
    /\ HasSecondField(line)
    /\ \E a \in 0..Len(SecondField(line)), b \in 1..(Len(SecondField(line)) + 1),
          zeros \in 0..2, sign \in {<<>>, <<"+">>} :
          /\ a < b
          /\ \A k \in 1..a : SecondField(line)[k] \in WhiteSpace
          /\ \A k \in b..Len(SecondField(line)) : SecondField(line)[k] \in WhiteSpace
          /\ SubSeq(SecondField(line), a + 1, b - 1) = sign \o [k \in 1..zeros |-> "0"] \o <<"1">>
HeadersEnded == \E i \in 2..Len(WireLines) : WireLines[i] = HEADERS_TRANSMISSION_END

\* C13: connect returns InvalidData when the first field of the first line is
\* not RFLOW, whatever the version; when the version field is missing or is
\* not the text of a u8; when the stream ends before a greeting; and when it
\* ends after the greeting RFLOW/1 and before a line "---". A failed connect
\* returns no Client and starts no reader thread.
C13_InvalidData ==
    LET Invalid == cli.pc = "failed" /\ cli.error = "InvalidData"
    IN  /\ GreetingTaken =>
               /\ FirstField(WireLines[1]) # GREETING => Invalid
               /\ (FirstField(WireLines[1]) = GREETING /\ ~HasSecondField(WireLines[1])) => Invalid
               /\ (/\ FirstField(WireLines[1]) = GREETING
                   /\ HasSecondField(WireLines[1])
                   /\ ~PaddedU8Text(SecondField(WireLines[1]))) => Invalid
        /\ (ClientDone /\ Len(WireLines) = 0) => Invalid
        /\ (/\ Eof /\ cli.pc \notin {"greeting", "headers"}
            /\ Len(WireLines) > 0 /\ GoodGreeting(WireLines[1]) /\ ~HeadersEnded) => Invalid
        /\ cli.pc = "failed" => cli.events = <<>> /\ cli.from = 0 /\ cli.last_direction = "None"

\* the stream ended after the greeting RFLOW/1 and a header, and connect
\* returned InvalidData
C13_Witness ==
    /\ cli.pc = "failed"
    /\ cli.error = "InvalidData"
    /\ Eof
    /\ Len(WireLines) = 2
    /\ GoodGreeting(WireLines[1])

\* C14: when connect fails while it waits for bytes of an endpoint that has
\* neither written a line it could take nor closed (nothing at all written,
\* or the greeting RFLOW/1 taken and no further line there), the error is
\* Timeout.
C14_TimeoutError ==
    (/\ cli.pc = "failed"
     /\ ~Eof
     /\ ~HasLine(Unread)
     /\ \/ Len(sock[0].wire) = 0
        \/ GreetingTaken /\ GoodGreeting(WireLines[1])) =>
        cli.error = "Timeout"

\* the bytes the first k lines of a run of bytes take, line ends included
RECURSIVE SpanOfLines(_, _)
SpanOfLines(bytes, k) ==
    IF k = 0 \/ Len(bytes) = 0 THEN 0
    ELSE IF HasLine(bytes)
    THEN IndexOf(bytes, "\n", 1) + SpanOfLines(AfterFirstLine(bytes), k - 1)
    ELSE Len(bytes)

\* the line that ends the headers: the first "---" after the greeting
HeadersEndLine ==
    CHOOSE i \in 2..Len(WireLines) :
        /\ WireLines[i] = HEADERS_TRANSMISSION_END
        /\ \A j \in 2..(i - 1) : WireLines[j] # HEADERS_TRANSMISSION_END

Connected == cli.pc \in {"reading", "quit", "eof"}

\* C15: after the greeting RFLOW/1, whatever header lines come before the line
\* "---": connect does not fail, it can take every line up to the "---", and
\* the reader thread of the Client it returns starts behind the "---", so the
\* events are made of later bytes only.
C15_HeadersIgnored ==
    (/\ Len(WireLines) >= 2
     /\ WireLines[1] = GREETING \o <<"/">> \o API_VERSION
     /\ HeadersEnded) =>
        /\ cli.pc # "failed"
        /\ cli.pc \in {"greeting", "headers"} => LineReady
        /\ Connected =>
               /\ cli.from >= SpanOfLines(sock[0].wire, HeadersEndLine)
               /\ Len(cli.events) <= Len(ReaderLines)
               /\ \A k \in 1..Len(cli.events) : cli.events[k][2] \in
                      {ReaderLines[k], SubSeq(ReaderLines[k], 4, Len(ReaderLines[k]))}

\* connect succeeded after one header line
C15_Witness ==
    /\ cli.pc = "reading"
    /\ WireLines = <<GREETING \o <<"/">> \o API_VERSION, <<"h">>, HEADERS_TRANSMISSION_END>>

\* ---------------------------------------------------------------------------
\* The writer thread and the socket of a server-side client
\* ---------------------------------------------------------------------------

Front(s) == SubSeq(s, 1, Len(s) - 1)

Last(s) == s[Len(s)]

\* prefix, payload and line feed of each message, one after the other
RECURSIVE FramesOf(_)
FramesOf(ms) ==
    IF ms = <<>> THEN <<>>
    ELSE (IF Head(ms)[1] = "ServerToClient" THEN <<"<", "<", "<">> ELSE <<">", ">", ">">>)
             \o Head(ms)[2] \o <<"\n">> \o FramesOf(Tail(ms))

\* the bytes on the socket of c behind the handshake
Written(c) == SubSeq(sock[c].wire, Len(Handshake) + 1, Len(sock[c].wire))

\* the dequeued messages whose write is over: the writer may hold one more
FullyWritten(c) == IF wr[c].pc = "write" THEN Front(hist.dequeued[c]) ELSE hist.dequeued[c]

FifoQueue(c) == hist.queued[c] = hist.dequeued[c] \o outch[c].q

SoleWriter ==
    \A c \in Conns :
        (sock[c].wire # <<>> /\ sock'[c].wire # sock[c].wire) =>
            /\ wr[c].pc \in {"recv", "write"}
            /\ hnd' = hnd /\ acc' = acc /\ app' = app /\ cli' = cli
            /\ \A d \in Conns \ {c} : wr'[d] = wr[d] /\ sock'[d] = sock[d]

C16_Frames ==
    \A c \in Conns :
        sock[c].wire # <<>> =>
            /\ IsPrefix(Handshake, sock[c].wire)
            /\ FifoQueue(c)
            /\ Written(c) = FramesOf(FullyWritten(c))

\* C16: behind the handshake the socket of a server-side client holds exactly
\* the frames (prefix, payload, line feed) of the messages dequeued from its
\* outgoing queue, in the order they were enqueued, and only its writer
\* thread writes there.
C16_WriterFrames == [](C16_Frames) /\ [][SoleWriter]_vars

\* the write of the last dequeued message failed: a part of its frame, and
\* nothing behind it, is on the socket, which is shut down
FailedWrite(c) ==
    /\ wr[c].pc = "done"
    /\ hist.dequeued[c] # <<>>
    /\ sock[c].down
    /\ \E part \in PartialFrames(Last(hist.dequeued[c])) :
           Written(c) = FramesOf(Front(hist.dequeued[c])) \o part

C16_FramesUnlessFailed ==
    \A c \in Conns :
        sock[c].wire # <<>> =>
            /\ IsPrefix(Handshake, sock[c].wire)
            /\ FifoQueue(c)
            /\ Written(c) = FramesOf(FullyWritten(c)) \/ FailedWrite(c)

\* C16 (amended): as C16, except that of a message whose write fails only an
\* initial part of the frame (possibly nothing) is on the socket; the writer
\* then shuts the socket down and writes nothing more.
C16_WriterFramesUnlessFailed == [](C16_FramesUnlessFailed) /\ [][SoleWriter]_vars

C16_Witness ==
    \E c \in Conns :
        /\ Len(hist.dequeued[c]) >= 2
        /\ wr[c].pc = "recv"
        /\ Written(c) = FramesOf(hist.dequeued[c])
        /\ Written(c) # <<>>

\* ---------------------------------------------------------------------------
\* The reader loops of two connected clients and the incoming channel
\* ---------------------------------------------------------------------------

\* the k-th line peer c wrote before the handler's first read
BacklogLine(c, k) ==
    <<CASE c = 0 -> "a" [] c = 1 -> "b" [] c = 2 -> "c" [] OTHER -> "d", Digit(k)>>

Backlog(c, n) == [k \in 1..n |-> BacklogLine(c, k)]

RECURSIVE JoinLines(_)
JoinLines(ls) == IF ls = <<>> THEN <<>> ELSE Head(ls) \o <<"\n">> \o JoinLines(Tail(ls))

\* Server::new, take_data_channel, serve, and MaxConn clients accepted and
\* greeted: every handler is about to read, every writer waits for a message,
\* and the peers have written some lines already
RelayInit ==
    /\ max_clients = MaxConn
    /\ outgoing_queue_size = MaxOutQueue
    /\ clinet_id = MaxConn
    /\ client_count = MaxConn
    /\ clients = [i \in Conns |-> i]
    /\ incoming_data_tx = 0
    /\ incoming_data_rx = NoChan
    /\ inch = [i \in 0..(MaxInChans - 1) |->
                 IF i = 0 THEN NewChannel(MaxInQueue) ELSE NoChannel]
    /\ inrx = [i \in 0..(MaxInChans - 1) |-> IF i = 0 THEN "app" ELSE "none"]
    /\ lock = NoThread
    /\ bcur = -1
    /\ permits = 0
    /\ sem_size = MaxConn
    /\ acc = [pc |-> "accept", sock |-> MaxConn - 1, id |-> MaxConn - 1]
    /\ hnd = [c \in Conns |-> [pc |-> "read", id |-> c, line |-> <<>>, tx |-> 0]]
    /\ wr = [c \in Conns |-> [pc |-> "recv", msg |-> <<>>]]
    /\ outch = [c \in Conns |-> NewChannel(MaxOutQueue)]
    /\ app = [pc |-> "idle", msg |-> <<>>, calls |-> 1, nsend |-> 0, takes |-> 1,
              last_take |-> "ok", nset |-> 0, last_set |-> "none"]
    /\ nconn = MaxConn
    /\ nline = 0
    /\ \E n \in [Conns -> 0..MaxBacklog] :
           /\ sock = [c \in Conns |->
                        [peer |-> "open", c2s |-> JoinLines(Backlog(c, n[c])), sbuf |-> 0,
                         down |-> FALSE, wire |-> Handshake]]
           /\ hist = [inlog |-> <<>>,
                      enq |-> [c \in Conns |-> {}],
                      lost |-> [c \in Conns |-> {}],
                      offered |-> [c \in Conns |-> {}],
                      csent |-> [c \in Conns |-> Backlog(c, n[c])],
                      decs |-> [c \in Conns |-> 0],
                      removes |-> [c \in Conns |-> 0],
                      releases |-> [c \in Conns |-> 0],
                      queued |-> [c \in Conns |-> <<>>],
                      dequeued |-> [c \in Conns |-> <<>>],
               before |-> {}]
    /\ NoClient

\* the application receives or drops its receiver, the peers send, the
\* handlers read, publish, echo and, refused by the channel, end. The writers are left waiting: try_send
\* into the outgoing queues never waits for them.
RelayNext ==
    \/ AppRecv
    \/ AppDropReceiver
    \/ \E c \in Conns :
          \/ ReadPublish(c)
          \/ ReadWait(c)
          \/ Publish(c)
          \/ SendLock(c)
          \/ SendOffer(c)
          \/ CountDown(c)
          \/ Remove(c)
          \/ Release(c)
          \/ PeerSend(c)

RelaySpec == RelayInit /\ [][RelayNext]_vars

RelayStep(c) ==
    \/ ReadPublish(c) \/ ReadWait(c) \/ Publish(c) \/ SendLock(c) \/ SendOffer(c)
    \/ CountDown(c) \/ Remove(c) \/ Release(c)

\* each handler is an OS thread: one that can take a step is scheduled in
\* the end. Nothing makes the application receive or the peers send.
RelayLiveSpec == RelaySpec /\ \A c \in Conns : WF_vars(RelayStep(c))

\* where line l stands among the lines peer c sent
SentAt(c, l) == CHOOSE k \in DOMAIN hist.csent[c] : hist.csent[c][k] = l

\* the incoming channel holds the newest of the lines published so far
ChannelIsLogTail ==
    \E k \in 0..Len(hist.inlog) :
        inch[0].q = SubSeq(hist.inlog, k + 1, Len(hist.inlog))

\* C17: the lines of one connection stand on the incoming channel in the
\* order the peer sent them, wherever the lines of the other connections
\* fall between them.
C17_PerConnectionOrder ==
    /\ ChannelIsLogTail
    /\ \A c \in Conns :
           \A i, j \in DOMAIN hist.inlog :
               (/\ i < j
                /\ hist.inlog[i] \in Range(hist.csent[c])
                /\ hist.inlog[j] \in Range(hist.csent[c])) =>
                   SentAt(c, hist.inlog[i]) < SentAt(c, hist.inlog[j])

\* a line of the other connection stands between two lines of one connection
C17_Witness ==
    \E i \in DOMAIN hist.inlog :
        /\ i + 2 \in DOMAIN hist.inlog
        /\ hist.inlog[i] = BacklogLine(0, 1)
        /\ hist.inlog[i + 1] \in Range(hist.csent[1])
        /\ hist.inlog[i + 2] = BacklogLine(0, 2)

\* every line a peer can have sent
AllLines ==
    {BacklogLine(c, k) : c \in Conns, k \in 1..MaxBacklog} \cup {LineData(n) : n \in 1..MaxLines}

ReceiverAlive(c) == inch[hnd[c].tx].rx

ChannelFull(c) == Len(inch[hnd[c].tx].q) >= inch[hnd[c].tx].cap

Blocked(c, l) == hnd[c].pc = "publish" /\ hnd[c].line = l

\* a handler that reads a line while the channel is full keeps the line and
\* its connection; a waiting handler does nothing but put its line on the
\* channel, or end when the receiver is gone
C18_Step ==
    \A c \in Conns :
        /\ (/\ hnd[c].pc = "read" /\ sock'[c].c2s # sock[c].c2s /\ hnd'[c] # hnd[c]
            /\ ReceiverAlive(c) /\ ChannelFull(c)) =>
               /\ hnd'[c].pc = "publish"
               /\ hnd'[c].line = FirstLine(sock[c].c2s)
               /\ sock'[c].down = sock[c].down
        /\ (hnd[c].pc = "publish" /\ hnd'[c] # hnd[c]) =>
               IF ReceiverAlive(c)
               THEN /\ ~ChannelFull(c)
                    /\ hnd'[c].pc = "echo"
                    /\ inch'[hnd[c].tx].q = Append(inch[hnd[c].tx].q, hnd[c].line)
               ELSE hnd'[c].pc = "dec"

\* a line a handler took is on the channel's log or in the hands of the
\* waiting handler, unless the receiver is gone
C18_NoLoss ==
    \A c \in Conns :
        \A i \in DOMAIN Consumed(c) :
            \/ Consumed(c)[i] \in Range(hist.inlog)
            \/ Blocked(c, Consumed(c)[i])
            \/ ~ReceiverAlive(c)

\* C18: a handler that finds the incoming channel full waits with its line,
\* neither dropping it nor closing the connection; if the application keeps
\* receiving, the line gets onto the channel; no line a handler read is lost
\* while the receiver is alive.
C18_BlockedLineDelivered ==
    /\ []C18_NoLoss
    /\ [][C18_Step]_vars
    /\ WF_vars(AppRecv) =>
           \A c \in Conns : \A l \in AllLines :
               Blocked(c, l) ~> (l \in Range(hist.inlog) \/ ~ReceiverAlive(c))

\* a handler waits with a line at a full channel whose receiver the
\* application holds, and an earlier line of the same peer got through
C18_Witness ==
    \E c \in Conns :
        /\ hnd[c].pc = "publish"
        /\ ChannelFull(c)
        /\ ReceiverAlive(c)
        /\ inrx[hnd[c].tx] = "app"
        /\ hnd[c].line = BacklogLine(c, 2)
        /\ BacklogLine(c, 1) \in Range(hist.inlog)

\* ---------------------------------------------------------------------------
\* set_incoming_queue_size
\* ---------------------------------------------------------------------------

SetQueueSizeReturns == app'.nset = app.nset + 1

TakeSucceeded == app.takes >= 1

C19_Result == app.last_set = "DataChannelTaken" => TakeSucceeded

C19_Step ==
    SetQueueSizeReturns =>
        IF TakeSucceeded
        THEN /\ app'.last_set = "DataChannelTaken"
             /\ incoming_data_tx' = incoming_data_tx
             /\ incoming_data_rx' = incoming_data_rx
             /\ inch' = inch
             /\ inrx' = inrx
        ELSE /\ app'.last_set = "ok"
             /\ incoming_data_rx' # NoChan
             /\ incoming_data_tx' = incoming_data_rx'
             /\ inrx[incoming_data_rx'] = "none"
             /\ inrx'[incoming_data_rx'] = "server"
             /\ inch'[incoming_data_rx'].q = <<>>
             /\ inch'[incoming_data_rx'].rx

\* C19: set_incoming_queue_size returns DataChannelTaken exactly when
\* take_data_channel has succeeded before, and then changes neither the
\* sender nor any channel; otherwise it succeeds and installs the sender and
\* the receiver of one new, empty channel.
C19_SetIncomingQueueSize == []C19_Result /\ [][C19_Step]_vars

\* one call installed a channel, the receiver was taken, the next call was
\* refused
C19_Witness ==
    /\ app.nset = 2
    /\ app.last_set = "DataChannelTaken"
    /\ app.takes = 1
    /\ FreshChan = 2

\* ---------------------------------------------------------------------------
\* Server::send
\* ---------------------------------------------------------------------------

SendCalled == app'.nsend = app.nsend + 1

\* Inner::send has offered the payload to the last key and drops the guard
SendBroadcastDone == app.pc = "bcast" /\ app'.pc = "idle"

\* the call checks the counter: at zero it returns having enqueued nothing,
\* otherwise it goes on to the registry
C20_CounterGate ==
    SendCalled =>
        /\ outch' = outch
        /\ app'.pc = IF client_count = 0 THEN "idle" ELSE "bcast"

\* the broadcast has offered (ServerToClient, payload) to every client of the
\* registry
C20_Broadcast ==
    SendBroadcastDone =>
        \A id \in DOMAIN clients :
            <<ServerToClient, app.msg>> \in hist'.offered[clients[id]]

\* a call that returns at the counter leaves no client of the registry
\* without the message
C20_NobodySkipped ==
    (SendCalled /\ app'.pc = "idle") => DOMAIN clients = {}

\* C20: Server::send enqueues nothing when client_count is zero and
\* otherwise offers (ServerToClient, payload) to every client of the
\* registry, so that every client that is in the registry when send runs is
\* offered the message.
C20_SendReachesRegistry ==
    [][C20_CounterGate /\ C20_Broadcast /\ C20_NobodySkipped]_vars

\* the two parts that follow the code: the gate at the counter and the
\* broadcast over the registry
C20_GateAndBroadcast == [][C20_CounterGate /\ C20_Broadcast]_vars

\* ---------------------------------------------------------------------------
\* The client after connect: the handles, the reader thread, the receiver
\* ---------------------------------------------------------------------------

\* a read of the reader fails: the server end is gone and the kernel reports
\* a reset instead of the end of the stream; quit!()
ClientReadError ==
    /\ cli.pc = "reading"
    /\ sock[0].down
    /\ Quit(cli)
    /\ UNCHANGED <<max_clients, outgoing_queue_size, clinet_id, client_count, clients,
                   incoming_data_tx, incoming_data_rx, inch, inrx, lock, bcur, permits,
                   sem_size, acc, hnd, wr, outch, app, nconn, nline, hist>>

\* the consumer takes an event from the Receiver connect returned
ConsumerRecv ==
    /\ cli.rx
    /\ ChannelLen > 0
    /\ cli' = [cli EXCEPT !.recvd = @ + 1]
    /\ UNCHANGED <<max_clients, outgoing_queue_size, clinet_id, client_count, clients,
                   incoming_data_tx, incoming_data_rx, inch, inrx, lock, bcur, permits,
                   sem_size, acc, hnd, wr, outch, sock, app, nconn, nline, hist>>

\* the consumer drops the Receiver
ConsumerDrop ==
    /\ cli.connected \/ cli.pc \in {"reading", "sending"}
    /\ cli.rx
    /\ cli' = [cli EXCEPT !.rx = FALSE]
    /\ UNCHANGED <<max_clients, outgoing_queue_size, clinet_id, client_count, clients,
                   incoming_data_tx, incoming_data_rx, inch, inrx, lock, bcur, permits,
                   sem_size, acc, hnd, wr, outch, sock, app, nconn, nline, hist>>

\* #[derive(Clone)]: one more handle on the same Arc<Inner>
CloneHandle ==
    /\ cli.handles >= 1
    /\ cli.handles + cli.drops < MaxHandles
    /\ cli' = [cli EXCEPT !.handles = @ + 1]
    /\ UNCHANGED <<max_clients, outgoing_queue_size, clinet_id, client_count, clients,
                   incoming_data_tx, incoming_data_rx, inch, inrx, lock, bcur, permits,
                   sem_size, acc, hnd, wr, outch, sock, app, nconn, nline, hist>>

\* faulty variant: only the last handle to go shuts the socket down
DropHandleLastOnly ==
    /\ cli.handles >= 1
    /\ cli.slock = 0
    /\ cli' = [cli EXCEPT !.handles = @ - 1, !.drops = @ + 1,
                          !.connected = IF cli.handles = 1 THEN FALSE ELSE @]
    /\ sock' = [sock EXCEPT ![0].peer = IF cli.handles = 1 THEN "closed" ELSE @]
    /\ UNCHANGED <<max_clients, outgoing_queue_size, clinet_id, client_count, clients,
                   incoming_data_tx, incoming_data_rx, inch, inrx, lock, bcur, permits,
                   sem_size, acc, hnd, wr, outch, app, nconn, nline, hist>>

\* impl Drop for Client, run for every handle that goes:
\* stream.lock().shutdown(Both), connected.store(false)
DropHandle ==
    /\ cli.handles >= 1
    /\ cli.slock = 0
    /\ cli' = [cli EXCEPT !.handles = @ - 1, !.drops = @ + 1, !.connected = FALSE]
    /\ sock' = [sock EXCEPT ![0].peer = "closed"]
    /\ UNCHANGED <<max_clients, outgoing_queue_size, clinet_id, client_count, clients,
                   incoming_data_tx, incoming_data_rx, inch, inrx, lock, bcur, permits,
                   sem_size, acc, hnd, wr, outch, app, nconn, nline, hist>>

\* the data of the n-th call of thread t
SenderData(t, n) == <<IF t = 1 THEN "p" ELSE "q", Digit(n)>>

\* faulty variant: the socket is written without the lock
TrySendNoLock(t) ==
    /\ cli.handles >= 1
    /\ cli.snd[t].pc = "idle"
    /\ cli.snd[t].n < MaxSends
    /\ LET data == SenderData(t, cli.snd[t].n + 1)
       IN  cli' = [cli EXCEPT
                      !.snd[t] = [pc |-> "write", rest |-> data \o <<"\n">>, n |-> @.n + 1],
                      !.log = Append(@, [t |-> t, data |-> data, written |-> 0, res |-> "run"])]
    /\ UNCHANGED <<max_clients, outgoing_queue_size, clinet_id, client_count, clients,
                   incoming_data_tx, incoming_data_rx, inch, inrx, lock, bcur, permits,
                   sem_size, acc, hnd, wr, outch, sock, app, nconn, nline, hist>>

\* Client::try_send: self.inner.stream.lock(), format!("{}\n", data)
TrySendLock(t) ==
    /\ cli.handles >= 1
    /\ cli.snd[t].pc = "idle"
    /\ cli.snd[t].n < MaxSends
    /\ cli.slock = 0
    /\ LET data == SenderData(t, cli.snd[t].n + 1)
       IN  cli' = [cli EXCEPT
                      !.slock = t,
                      !.snd[t] = [pc |-> "write", rest |-> data \o <<"\n">>, n |-> @.n + 1],
                      !.log = Append(@, [t |-> t, data |-> data, written |-> 0, res |-> "run"])]
    /\ UNCHANGED <<max_clients, outgoing_queue_size, clinet_id, client_count, clients,
                   incoming_data_tx, incoming_data_rx, inch, inrx, lock, bcur, permits,
                   sem_size, acc, hnd, wr, outch, sock, app, nconn, nline, hist>>

\* the call of thread t in the log
CallOf(t) == CHOOSE i \in DOMAIN cli.log : cli.log[i].t = t /\ cli.log[i].res = "run"

\* write_all: one write() of the socket takes some of the bytes that are
\* left; with the last of them the call returns Ok and the guard is dropped
TrySendWrite(t) ==
    /\ cli.snd[t].pc = "write"
    /\ sock[0].peer = "open"
    /\ ~cli.wfail
    /\ \E k \in 1..Len(cli.snd[t].rest) :
           LET rest == SubSeq(cli.snd[t].rest, k + 1, Len(cli.snd[t].rest))
               done == rest = <<>>
           IN  /\ sock' = [sock EXCEPT ![0].c2s = @ \o SubSeq(cli.snd[t].rest, 1, k)]
               /\ cli' = [cli EXCEPT
                      !.slock = IF done /\ @ = t THEN 0 ELSE @,
                      !.snd[t].pc = IF done THEN "idle" ELSE "write",
                      !.snd[t].rest = rest,
                      !.log[CallOf(t)].written = @ + k,
                      !.log[CallOf(t)].res = IF done THEN "ok" ELSE "run"]
    /\ UNCHANGED <<max_clients, outgoing_queue_size, clinet_id, client_count, clients,
                   incoming_data_tx, incoming_data_rx, inch, inrx, lock, bcur, permits,
                   sem_size, acc, hnd, wr, outch, app, nconn, nline, hist>>

\* a write() fails: the socket is shut down on this side, or the server end
\* is gone and the kernel has learnt of it; every later write fails too
TrySendFail(t) ==
    /\ cli.snd[t].pc = "write"
    /\ sock[0].peer = "closed" \/ sock[0].down \/ cli.wfail
    /\ cli' = [cli EXCEPT
           !.slock = IF @ = t THEN 0 ELSE @,
           !.wfail = TRUE,
           !.snd[t].pc = "idle",
           !.snd[t].rest = <<>>,
           !.log[CallOf(t)].res = "err"]
    /\ UNCHANGED <<max_clients, outgoing_queue_size, clinet_id, client_count, clients,
                   incoming_data_tx, incoming_data_rx, inch, inrx, lock, bcur, permits,
                   sem_size, acc, hnd, wr, outch, sock, app, nconn, nline, hist>>

\* connect_with_options has returned (Client, Receiver), the channel holds
\* ClientQueue events
HandleInit ==
    /\ EndpointInit(Handshake)
    /\ cli = [IdleClient EXCEPT !.pc = "reading", !.pos = Len(Handshake),
                               !.from = Len(Handshake), !.version = 1,
                               !.connected = TRUE, !.handles = 1, !.cap = ClientQueue]

HandleNext ==
    \/ ClientLine
    \/ ClientSend
    \/ ClientEof
    \/ ClientReadError
    \/ ConsumerRecv
    \/ ConsumerDrop
    \/ CloneHandle
    \/ DropHandle
    \/ EndpointWrite(LaterChunks)
    \/ EndpointClose

HandleSpec == HandleInit /\ [][HandleNext]_vars

ReaderStep == ClientLine \/ ClientSend \/ ClientEof \/ ClientReadError

\* the reader is an OS thread: when it can take a step it is scheduled in
\* the end. Nothing makes the consumer receive.
HandleLiveSpec == HandleSpec /\ WF_vars(ReaderStep)

\* the reader thread runs its loop
ReaderRuns == cli.pc \in {"reading", "sending"}

\* what is_connected() returns
is_connected == cli.connected

C21_Flag == is_connected <=> (ReaderRuns /\ cli.drops = 0)

\* C21: is_connected() is true from the successful connect until the reader
\* stops or a handle is dropped; once the reader has stopped (end of stream,
\* read error, receiver dropped, bare line without a direction) it is false,
\* and it is never true again.
C21_ConnectedFlag ==
    /\ [](cli.handles + cli.drops >= 1 => C21_Flag)
    /\ [][~is_connected => ~is_connected']_vars

\* the reader has stopped because the receiver was dropped, while a handle
\* is alive and none was dropped
C21_Witness ==
    /\ cli.pc = "quit"
    /\ ~cli.rx
    /\ cli.handles = 2
    /\ cli.drops = 0
    /\ ~is_connected
    /\ Len(cli.events) >= 1

\* ---------------------------------------------------------------------------
\* Client::try_send from several threads
\* ---------------------------------------------------------------------------

SendNext ==
    \/ \E t \in Senders : TrySendLock(t) \/ TrySendWrite(t) \/ TrySendFail(t)
    \/ CloneHandle
    \/ DropHandle
    \/ EndpointClose

SendSpec == HandleInit /\ [][SendNext]_vars

\* what the calls of the log, in the order they began, put on the socket
RECURSIVE BytesOfCalls(_)
BytesOfCalls(calls) ==
    IF calls = <<>> THEN <<>>
    ELSE SubSeq(Head(calls).data \o <<"\n">>, 1, Head(calls).written)
             \o BytesOfCalls(Tail(calls))

\* C22: the calls of try_send write one after the other: the socket holds
\* the bytes of the calls in the order the calls began, never the bytes of
\* one call between those of another, and a call that returned Ok has
\* written its data and one line feed.
C22_SendsSerialized ==
    /\ sock[0].c2s = BytesOfCalls(cli.log)
    /\ \A i \in DOMAIN cli.log :
           cli.log[i].res = "ok" => cli.log[i].written = Len(cli.log[i].data) + 1
    /\ Cardinality({t \in Senders : cli.snd[t].pc = "write"}) <= 1

\* both threads have sent, turn about, and one call was written in pieces
C22_Witness ==
    /\ Len(cli.log) = 3
    /\ cli.log[1].t = 1 /\ cli.log[2].t = 2 /\ cli.log[3].t = 1
    /\ cli.log[1].res = "ok" /\ cli.log[2].res = "ok"
    /\ cli.log[3].res = "run" /\ cli.log[3].written = 1

\* ---------------------------------------------------------------------------
\* A handler whose publish is refused
\* ---------------------------------------------------------------------------

\* the handler of c is past its reader loop
TearingDown(c) == hnd[c].pc \in {"dec", "remove", "release", "gone"}

\* the handler of c takes a line and calls send, or its waiting send returns
TriesToPublish(c) ==
    \/ hnd[c].pc = "read" /\ sock'[c].c2s # sock[c].c2s /\ hnd'[c] # hnd[c]
    \/ hnd[c].pc = "publish" /\ hnd'[c] # hnd[c]

NothingPublished == hist'.inlog = hist.inlog /\ hist'.offered = hist.offered

\* C23 as claimed: a handler that finds the incoming channel full or closed
\* stops reading there and then, without an echo.
C23_FullOrClosedIsFatal ==
    [][\A c \in Conns :
          (TriesToPublish(c) /\ SendOutcome(inch[hnd[c].tx]) # "ok") =>
              hnd'[c].pc = "dec" /\ NothingPublished]_vars

C23_Step ==
    \A c \in Conns :
        /\ (TriesToPublish(c) /\ SendOutcome(inch[hnd[c].tx]) = "closed") =>
               hnd'[c].pc = "dec" /\ NothingPublished
        /\ (TriesToPublish(c) /\ SendOutcome(inch[hnd[c].tx]) = "blocked") =>
               /\ hnd'[c].pc = "publish"
               /\ hnd'[c].line = FirstLine(sock[c].c2s)
               /\ NothingPublished
        /\ TearingDown(c) =>
               /\ TearingDown(c)'
               /\ IsPrefix(sock[c].c2s, sock'[c].c2s)
               /\ hnd'[c].line = hnd[c].line

C23_NoEcho ==
    \A c \in Conns :
        (TearingDown(c) /\ hnd[c].line # <<>> /\ hnd[c].line \notin Range(hist.inlog)) =>
            \A d \in Conns : <<ClientToServer, hnd[c].line>> \notin hist.offered[d]

\* C23 (amended): a handler that finds the incoming channel closed, at once
\* or while it waits, stops reading, does not echo the line, and its
\* connection is torn down; one that finds the channel full waits with the
\* line.
C23_ClosedIsFatal ==
    /\ [][C23_Step]_vars
    /\ []C23_NoEcho
    /\ \A c \in Conns :
           hnd[c].pc = "dec" ~> (hnd[c].pc = "gone" /\ c \notin Registered)

\* the handler is gone after a refused publish: its line is neither on the
\* channel nor with any client
C23_Witness ==
    \E c \in Conns :
        /\ hnd[c].pc = "gone"
        /\ hnd[c].line # <<>>
        /\ hnd[c].line \notin Range(hist.inlog)
        /\ ~inch[hnd[c].tx].rx
        /\ c \notin Registered
        /\ hist.inlog # <<>>

\* ---------------------------------------------------------------------------
\* A writer whose write fails
\* ---------------------------------------------------------------------------

\* the writer of c leaves its loop from a write
WriterFails(c) == wr[c].pc = "write" /\ wr'[c].pc = "done"

\* the writer of c has exited and the socket is shut down
WriterGone(c) == wr[c].pc = "done" /\ sock[c].down

\* the reader has ended, the counter is lowered, the id is out of the registry
Destroyed(c) ==
    /\ hnd[c].pc \in {"release", "gone"}
    /\ hist.decs[c] = 1
    /\ hnd[c].id \notin DOMAIN clients

C24_Step ==
    \A c \in Conns :
        WriterFails(c) => sock'[c].down /\ ~outch'[c].rx /\ hnd' = hnd

\* C24 as claimed: a writer that fails a write shuts the socket down and
\* exits, and the client's entry is destroyed in the end.
C24_WriterFailureDestroys ==
    /\ [][C24_Step]_vars
    /\ \A c \in Conns : WriterGone(c) ~> Destroyed(c)

\* C24 (amended): the same, unless the handler of that client waits for
\* ever in its send to a full incoming channel that the application does not
\* drain.
C24_DestroysUnlessInSend ==
    /\ [][C24_Step]_vars
    /\ \A c \in Conns : (WriterGone(c) ~> Destroyed(c)) \/ <>[]InSend(c)

\* the writer failed while the peer was there, and the entry is destroyed
C24_Witness ==
    \E c \in Conns :
        /\ FailedWrite(c)
        /\ sock[c].peer = "open"
        /\ Destroyed(c)

\* ---------------------------------------------------------------------------
\* Echo after publish
\* ---------------------------------------------------------------------------

\* the echoes among the messages ms
Echoes(ms) == {m \in ms : m[1] = ClientToServer}

\* the messages whose frames the writer of c has put on the socket
OnTheWire(c) ==
    {hist.dequeued[c][i] : i \in {k \in DOMAIN hist.dequeued[c] :
         IsPrefix(FramesOf(SubSeq(hist.dequeued[c], 1, k)), Written(c))}}

\* C25: a line is echoed only after the incoming channel took it: every
\* echo offered to a client, waiting in its queue or written to its socket is
\* of a line in the channel's log, and a handler that echoes has its line
\* there.
C25_EchoAfterPublish ==
    /\ \A c \in Conns :
           /\ \A m \in Echoes(hist.offered[c]) : m[2] \in Range(hist.inlog)
           /\ \A m \in Echoes(Range(outch[c].q)) : m[2] \in Range(hist.inlog)
           /\ sock[c].wire # <<>> =>
                  \A m \in Echoes(OnTheWire(c)) : m[2] \in Range(hist.inlog)
    /\ \A c \in Conns : hnd[c].pc = "echo" => hnd[c].line \in Range(hist.inlog)

\* the echo of a line is on a client's socket, the line was published, and
\* another handler was refused by the channel
C25_Witness ==
    \E c, d \in Conns :
        /\ sock[c].wire # <<>>
        /\ Echoes(OnTheWire(c)) # {}
        /\ TearingDown(d)
        /\ hnd[d].line # <<>>
        /\ hnd[d].line \notin Range(hist.inlog)

\* ---------------------------------------------------------------------------
\* The switch from the handshake to the reader thread
\* ---------------------------------------------------------------------------

\* the first line the server wrote behind the end of the headers
FirstFrameLine == WireLines[HeadersEndLine + 1]

\* C26: the reader thread starts right behind the line that ends the
\* headers, and the first event of the receiver is the first frame the
\* server wrote behind that line.
C26_NoLossAtSwitch ==
    Connected =>
        /\ cli.from = SpanOfLines(sock[0].wire, HeadersEndLine)
        /\ cli.events # <<>> =>
               /\ Prefixed(FirstFrameLine)
               /\ cli.events[1] =
                      <<PrefixOf(FirstFrameLine),
                        SubSeq(FirstFrameLine, 4, Len(FirstFrameLine))>>

\* ---------------------------------------------------------------------------
\* Dropping a handle
\* ---------------------------------------------------------------------------

DropsHandle == cli'.drops = cli.drops + 1

C27_Step == DropsHandle => sock'[0].peer = "closed" /\ ~is_connected'

C27_Dropped == cli.drops >= 1 => sock[0].peer = "closed" /\ ~is_connected

\* C27 as claimed: the drop of any handle shuts the socket down and clears
\* the flag, which stays false for the clones that remain, and the reader
\* thread ends.
C27_DropEndsReader ==
    /\ [][C27_Step]_vars
    /\ []C27_Dropped
    /\ cli.drops >= 1 ~> ~ReaderRuns

\* the reader waits in tx.send with an event in hand
ReaderInSend == cli.pc = "sending"

\* C27 (amended): the same, unless the reader waits for ever in its send to
\* a full channel that the consumer neither drains nor drops.
C27_DropEndsReaderUnlessInSend ==
    /\ [][C27_Step]_vars
    /\ []C27_Dropped
    /\ (cli.drops >= 1 ~> ~ReaderRuns) \/ <>[]ReaderInSend

\* one handle was dropped while its clone lives on, and the reader, which
\* had delivered an event, has ended
C27_Witness ==
    /\ cli.drops = 1
    /\ cli.handles = 1
    /\ ~ReaderRuns
    /\ ~is_connected
    /\ cli.events # <<>>
    /\ cli.rx

\* ---------------------------------------------------------------------------
\* set_incoming_queue_size while connections are served
\* ---------------------------------------------------------------------------

\* the handler of c has its clone of the incoming sender (server.rs 113)
Admitted(c) == hnd[c].tx # NoChan

\* c holds the sender of a channel that has been replaced
Stale(c) == Admitted(c) /\ hnd[c].tx # incoming_data_tx

\* the connection whose peer sent line l
SenderOf(l) == CHOOSE c \in Conns : l \in Range(hist.csent[c])

\* the lines on the channel the server holds now come from its own senders
NewChannelIsClean ==
    \A i \in DOMAIN inch[incoming_data_tx].q :
        hnd[SenderOf(inch[incoming_data_tx].q[i])].tx = incoming_data_tx

\* C28 as claimed: a connection accepted before the last successful
\* set_incoming_queue_size keeps the sender of the replaced channel, and only
\* connections accepted later publish into the new one.
C28_AcceptedKeepOldSender ==
    /\ \A c \in hist.before : ~Admitted(c) \/ Stale(c)
    /\ NewChannelIsClean

C28_Stale ==
    /\ \A c \in Conns : Stale(c) => c \in hist.before /\ ~inch[hnd[c].tx].rx
    /\ \A c \in Conns :
           (Stale(c) /\ hnd[c].pc = "echo") => hnd[c].line \in Range(hist.inlog)
    /\ NewChannelIsClean

C28_Step ==
    /\ \A c \in Conns :
           (Stale(c) /\ TriesToPublish(c)) => hnd'[c].pc = "dec" /\ NothingPublished
    /\ (SetQueueSizeReturns /\ app'.last_set = "ok") =>
           \A c \in Conns : Admitted(c) => Stale(c)' /\ hnd'[c].tx = hnd[c].tx

\* C28 (amended): a connection whose handler had its sender (server.rs 113)
\* before the call keeps the sender of the replaced channel, whose receiver
\* is gone: its next publish fails, the line is not echoed and the
\* connection ends; connections that get their sender after the call, also
\* those accepted before it, publish into the new channel.
C28_AdmittedKeepOldSender == []C28_Stale /\ [][C28_Step]_vars

\* a connection served before the call has ended at its next line, which is
\* on no channel
C28_Witness ==
    \E c \in Conns :
        /\ Stale(c)
        /\ hnd[c].pc = "gone"
        /\ hnd[c].line # <<>>
        /\ hnd[c].line \notin Range(hist.inlog)
        /\ app.last_set = "ok"

\* ---------------------------------------------------------------------------
\* Broadcasts and the registry lock
\* ---------------------------------------------------------------------------

\* the position of message m in the sequence ms
PlaceIn(ms, m) == CHOOSE i \in DOMAIN ms : ms[i] = m

\* the sockets of the registry
RegisteredSockets == {clients[id] : id \in DOMAIN clients}

\* while a broadcast holds the lock the registry stays as it is and nobody
\* else offers; a broadcast that ends has offered its message to the clients
\* of the registry and to nobody else
C29_Step ==
    /\ lock # NoThread =>
           /\ clients' = clients
           /\ lock' \in {lock, NoThread}
           /\ \A c \in Conns : hist'.offered[c] \ hist.offered[c] \subseteq {BMsg(lock)}
    /\ \A t \in Threads :
           Finishes(t) =>
               \A c \in Conns : BMsg(t) \in hist'.offered[c] <=> c \in RegisteredSockets

\* two messages that two clients both took into their queues stand in the
\* same order in both, and come out of both in that order
C29_SameOrder ==
    \A c, d \in Conns :
        /\ \A m1, m2 \in Range(hist.queued[c]) \cap Range(hist.queued[d]) :
               PlaceIn(hist.queued[c], m1) < PlaceIn(hist.queued[c], m2) =>
                   PlaceIn(hist.queued[d], m1) < PlaceIn(hist.queued[d], m2)
        /\ \A m1, m2 \in Range(hist.dequeued[c]) \cap Range(hist.dequeued[d]) :
               PlaceIn(hist.dequeued[c], m1) < PlaceIn(hist.dequeued[c], m2) =>
                   PlaceIn(hist.dequeued[d], m1) < PlaceIn(hist.dequeued[d], m2)

\* C29: broadcasts are serialized by the registry lock: each is offered to
\* exactly the clients of the registry as it stands while the lock is held,
\* and two broadcasts reach the clients that take both in the same order.
C29_BroadcastsSerialized == []C29_SameOrder /\ [][C29_Step]_vars

\* two clients have both taken the same two broadcasts, one of the
\* application and one echo
C29_Witness ==
    \E c, d \in Conns :
        /\ c # d
        /\ Len(hist.queued[c]) = 2
        /\ hist.queued[d] = hist.queued[c]
        /\ hist.queued[c][1][1] # hist.queued[c][2][1]

====
